---------------------------- MODULE Spec2Model ----------------------------
(***************************************************************************)
(* A model of portablemc (portablemc_rework.py): the metadata resolver     *)
(* (Version.install_meta, Util.merge_dict), the version manifest, the auth *)
(* session store (AuthDatabase, MicrosoftAuthSession.validate), json       *)
(* requests, the download list and the planners of a Version; of the forge *)
(* installer (core/portablemc/forge.py); and of the game supervision and   *)
(* the stream reader of the richer addon (addons/richer.py).               *)
(*                                                                         *)
(* JSON values are records of one shape, so that values of different JSON  *)
(* types can be compared: t is the type tag ("s" scalar, "l" list, "d"     *)
(* object), and only the field of that type carries data.  A Python dict   *)
(* is a function from its keys to JSON values; a list is a sequence.       *)
(***************************************************************************)
EXTENDS Integers, Sequences, FiniteSets, TLC

VARIABLES
    \* ---- Util.merge_dict called on its own (dst, other) ----
    m_dst,          \* the 'dst' argument as passed
    m_other,        \* the 'other' argument as passed
    m_res,          \* dst after the call (merge_dict mutates dst in place)
    m_pc            \* "init" | "merged" (merge_dict(dst, other)) | "self" (merge_dict(dst, dst))

VARIABLES
    \* ---- the environment of a Version: the remote side and the disk ----
    net_manifest,   \* the document served at VERSION_MANIFEST_URL
    net_docs,       \* version id -> the descriptor served at that version's url
    files,          \* version id -> the file versions/<id>/<id>.json
    dirs,           \* the version ids whose directory versions/<id> exists
    \* ---- a Version object (self) ----
    version,        \* self.version
    manifest,       \* self.manifest: <<>> (None) or <<data>>
    version_meta,   \* self.version_meta: <<>> (None) or <<document>>
    version_dir,    \* self.version_dir: <<>> (None) or <<path>>
    \* ---- install_meta in progress ----
    pc,             \* "idle" | "internal" | "loop" | "merge" | "done" | "failed"
    l_version_meta, \* the local version_meta of install_meta
    l_parent_meta,  \* the local parent_meta of install_meta
    l_version_dir,  \* the local version_dir of install_meta: <<>> or <<path>>
    error,          \* <<>> or <<the exception that left install_meta>>
    \* ---- what an observer of the calls records ----
    resolved,       \* the first ids passed to _install_meta_internal by the current call, in order
    request,        \* <<>> or <<the url requested by the latest _install_meta_internal>>
    calls           \* how many times install_meta was called

VARIABLES
    \* ---- the disk of an AuthDatabase ----
    a_file,         \* the file self._filename
    a_legacy,       \* the file self._legacy_filename
    \* ---- an AuthDatabase (self) and a second one made on the same files ----
    a_sessions,     \* self._sessions: type -> (email_or_username -> session)
    a_sessions2,    \* _sessions of the second AuthDatabase
    a_pre,          \* self._sessions as it was when the latest put, get or remove began
    a_args,         \* the key, the type tag and the session the latest put, get or remove was called with
    \* ---- the latest call ----
    a_pc,           \* "idle" | "saving" (save has opened the file)
    a_last,         \* the latest operation
    a_raised,       \* <<>> or <<the exception that left the latest operation>>
    a_ret           \* <<>> (None) or <<the value the latest operation returned>>

VARIABLES
    \* ---- one auth session object and the call running on it ----
    s_sess,         \* the session: attribute -> value
    s_pre,          \* the session as it was when the latest call began
    s_pc,           \* "idle", or the request of authenticate_base that comes next
    s_log,          \* the requests sent and responses received by the latest call
    s_in,           \* the latest response of a server
    s_loc,          \* the locals of authenticate_base
    s_res,          \* <<>> or <<the dict authenticate_base returned>>
    s_raised,       \* <<>> or <<the exception that left the latest call>>
    s_ret,          \* the value the latest call returned
    s_last          \* the latest call

VARIABLES
    \* ---- the latest call of Util.json_request ----
    h_url,          \* the url argument
    h_ignore,       \* the ignore_error argument
    h_pc,           \* "idle" | "request" | "load" | "finally" | "done"
    h_conn,         \* the connection object: "none" | "open" | "closed"
    h_requests,     \* how many times conn.request was called
    h_resp,         \* what the server does with the request
    h_pending,      \* the return value or exception that waits for the finally clause
    h_out,          \* the return value or exception the caller got
    \* ---- a DownloadList ----
    dl_entries,     \* self.entries: host key -> list of entries
    dl_count,       \* self.count
    dl_size,        \* self.size
    dl_in,          \* <<>> or <<the entry given to the latest append>>
    dl_raised       \* <<>> or <<the exception that left the latest append>>

VARIABLES
    \* ---- FabricRepository.fetch_version (forge.py): the probe of the installer ----
    f_forge_version, \* self.forge_version, the parts that "-" separates
    f_suffixes,     \* the local suffixes
    f_i,            \* the place in suffixes of the suffix that comes next
    f_requests,     \* the versions requested so far with the status of each answer
    f_jar,          \* the local install_jar: <<>> (None) or <<the version it was served for>>
    \* ---- ForgePostInfo and ForgeFinalizeTask.execute ----
    f_profile,      \* <<>> or <<what the archive holds: install_profile.json and version.json>>
    f_meta,         \* version.metadata: <<>> (None) or <<[id, libraries]>>
    f_steps,        \* what fetch_version did with the state, the archive and the disk, in order
    f_written,      \* the version metadata file: <<>> (absent) or <<[id, libraries]>>
    f_info,         \* state.get(ForgePostInfo): <<>> (None) or <<info>>
    f_tmp,          \* the directory info.tmp_dir: "none" | "present" | "removed"
    f_k,            \* the place in info.processors of the processor of this iteration
    f_runs,         \* the processors run so far, each with its exit code and its outputs
    f_events,       \* the events the watcher got, in order
    \* ---- the call in progress ----
    f_pc,           \* "off" | "idle" | "probe" | "opened" | "fetched" | "processor" | "run"
                    \* | "done" | "failed"
    f_raised        \* <<>> or <<the exception that left the call>>

VARIABLES
    \* ---- the rest of a DownloadList ----
    dl_callbacks,   \* self.callbacks
    dl_registered,  \* the callbacks given to add_callback so far, in the order of the calls
    \* ---- the download of a DownloadList, as section 4.2 of the specification has it ----
    x_pc,           \* "off" | "planning" | "running" | "callbacks" | "done" | "failed"
    x_conns,        \* host key -> how many connections to it are open
    x_next,         \* host key -> the place in its list of the entry to start next
    x_inflight,     \* the entries in flight, each as <<host key, place in its list>>
    x_tries,        \* host key -> how many times the entry in flight failed verification
    x_done,         \* the entries downloaded and verified, in the order they were
    x_ran,          \* the callbacks run so far, in order
    x_raised        \* <<>> or <<the error that ended the phase>>

VARIABLES
    \* ---- a Version after install_meta, its disk and the server of asset indexes ----
    i_meta,         \* self.version_meta: <<>> (None) or <<what the planners read of it>>
    i_version_dir,  \* self.version_dir: <<>> (None) or <<path>>
    i_jar_file,     \* self.version_jar_file: <<>> (None) or <<path>>
    i_assets,       \* <<>> or <<self.assets_index_version, self.assets_virtual_dir>>
    i_dl,           \* self.dl: entries, count, size, callbacks
    i_net_index,    \* the asset index the server has
    i_disk,         \* path -> the bytes of the file, or "absent"
    \* ---- the latest call ----
    i_pc,           \* "off" | "new" | "planning" | "downloaded"
    i_last,         \* the latest operation
    i_new,          \* the entries the latest operation handed to self.dl.append, in order
    i_pre,          \* the disk as it was when the latest operation began
    i_raised,       \* <<>> or <<the exception that left the latest operation>>
    i_ret,          \* <<>> (None) or <<the value the latest operation returned>>
    i_calls         \* how many times a planner was called

VARIABLES
    \* ---- a task Sequence and the latest edit of it ----
    q_tasks,        \* the tasks of the sequence, in order: [type, id]
    q_pre,          \* the tasks as they were when the latest edit began
    q_op,           \* the latest edit: [name, t, T]
    q_next,         \* the id of the next task object made
    q_forged,       \* add_forge_tasks was called on the sequence
    q_pc            \* "off" | "on"

VARIABLES
    \* ---- RicherAddon.run_game: the child process, the UI application, _run ----
    g_child,        \* the child process: "running" | "exited"
    g_code,         \* process.returncode: <<>> (None) or <<the exit code>>
    g_app,          \* the prompt_toolkit application: "running" | "exited"
    g_ctrlc,        \* the user has pressed c-c (event.app.exit())
    g_proc,         \* the coroutine _run_process: "looping" | "done"
    g_ticks,        \* how many times _run_process found the child running
    g_pc,           \* "off" | "waiting" | "resumed" | "reap" | "app_check" | "returned" | "raised"
    g_polled,       \* what process.poll() gave _run: "" (not called) | "None" | "code"
    g_log           \* the calls _run made after asyncio.wait, in order

VARIABLES
    \* ---- a VersionManifest and the latest query of it ----
    v_data,         \* self._data: latest (alias -> id) and versions; an id is its characters
    v_inp,          \* the argument of the latest query
    v_op,           \* "new" | "search_versions" | "get_version"
    v_out           \* what search_versions yielded, in order; <<>> or <<what get_version returned>>

VARIABLES
    \* ---- a ThreadedProcessReader, the pipe it reads and the thread it runs ----
    r_pipe,         \* the lines the child wrote that readline has not returned yet
    r_open,         \* the child still holds the write end of the pipe
    r_sent,         \* how many lines the child wrote
    r_thread,       \* the thread of _entry: "off" | "running" | "done"
    r_closed,       \* self._input.close() was called
    r_queue,        \* self._queue
    r_read,         \* what readline returned, in order, each with whether the queue took it
    r_got,          \* the lines poll() returned, in order
    r_ret           \* what the latest poll() returned

mergeVars == <<m_dst, m_other, m_res, m_pc>>
instVars == <<i_meta, i_version_dir, i_jar_file, i_assets, i_dl, i_net_index, i_disk, i_pc,
              i_last, i_new, i_pre, i_raised, i_ret, i_calls>>
execVars == <<dl_callbacks, dl_registered, x_pc, x_conns, x_next, x_inflight, x_tries, x_done,
              x_ran, x_raised>>
fetchedVars == <<f_profile, f_meta, f_steps, f_written>>
forgeVars == <<f_forge_version, f_suffixes, f_i, f_requests, f_jar, f_info, f_tmp, f_k,
               f_runs, f_events, f_pc, f_raised, fetchedVars>>
seqVars == <<q_tasks, q_pre, q_op, q_next, q_forged, q_pc>>
gameVars == <<g_child, g_code, g_app, g_ctrlc, g_proc, g_ticks, g_pc, g_polled, g_log>>
manVars == <<v_data, v_inp, v_op, v_out>>
readVars == <<r_pipe, r_open, r_sent, r_thread, r_closed, r_queue, r_read, r_got, r_ret>>
lateVars == <<seqVars, gameVars, manVars, readVars>>
restVars == <<forgeVars, execVars, instVars, lateVars>>
httpVars == <<h_url, h_ignore, h_pc, h_conn, h_requests, h_resp, h_pending, h_out>>
dlVars == <<dl_entries, dl_count, dl_size, dl_in, dl_raised>>
sessVars == <<s_sess, s_pre, s_pc, s_log, s_in, s_loc, s_res, s_raised, s_ret, s_last>>
authVars == <<a_file, a_legacy, a_sessions, a_sessions2, a_pre, a_args, a_pc, a_last, a_raised,
              a_ret>>
envVars == <<net_manifest, net_docs, files, dirs>>
metaVars == <<envVars, version, manifest, version_meta, version_dir, pc,
              l_version_meta, l_parent_meta, l_version_dir, error, resolved, request, calls>>
vars == <<mergeVars, metaVars, authVars, sessVars, httpVars, dlVars, restVars>>
\* what the actions of one part leave alone
nonMergeVars == <<metaVars, authVars, sessVars, httpVars, dlVars, restVars>>
nonMetaVars == <<mergeVars, authVars, sessVars, httpVars, dlVars, restVars>>
nonAuthVars == <<mergeVars, metaVars, sessVars, httpVars, dlVars, restVars>>
nonSessVars == <<mergeVars, metaVars, authVars, httpVars, dlVars, restVars>>
nonHttpVars == <<mergeVars, metaVars, authVars, sessVars, restVars>>
nonForgeVars == <<mergeVars, metaVars, authVars, sessVars, httpVars, dlVars, execVars,
                  instVars, lateVars>>
nonExecVars == <<mergeVars, metaVars, authVars, sessVars, httpVars, dlVars, forgeVars,
                 instVars, lateVars>>
nonInstVars == <<mergeVars, metaVars, authVars, sessVars, httpVars, dlVars, forgeVars,
                 execVars, lateVars>>
earlyVars == <<mergeVars, metaVars, authVars, sessVars, httpVars, dlVars, forgeVars, execVars,
               instVars>>
nonSeqVars == <<earlyVars, gameVars, manVars, readVars>>
nonGameVars == <<earlyVars, seqVars, manVars, readVars>>
nonManVars == <<earlyVars, seqVars, gameVars, readVars>>
nonReadVars == <<earlyVars, seqVars, gameVars, manVars>>

-----------------------------------------------------------------------------
(* Bounds *)

\* longest list in a document handed to merge_dict on its own
MaxLen == 2
\* number of entries of a version descriptor's own "libraries" list
LibLen == 2
\* number of install_meta calls made on one Version object
MaxCalls == 2
\* how many entries a DownloadList gets
MaxEntries == 2
\* how many post-processors an install profile declares
MaxProcessors == 2
\* how many callbacks a DownloadList gets
MaxCallbacks == 2
\* how many times the planners (install_jar, install_assets, install_logger) are
\* called on one Version
MaxPlans == 2
\* how many times a task sequence is edited before add_forge_tasks
MaxEdits == 2
\* how many times _run_process finds the child running
MaxTicks == 3
\* how many versions a manifest lists
MaxVersions == 3
\* how many lines the child writes to one stream
MaxLines == 3
\* how many lines the queue of a ThreadedProcessReader holds: Queue(100), scaled down
QueueSize == 2

-----------------------------------------------------------------------------
(* JSON values *)

EmptyDict == [k \in {} |-> 0]

S(x) == [t |-> "s", s |-> x,  l |-> <<>>, d |-> EmptyDict]
L(q) == [t |-> "l", s |-> "", l |-> q,    d |-> EmptyDict]
D(f) == [t |-> "d", s |-> "", l |-> <<>>, d |-> f]

IsDict(x) == x.t = "d"
IsList(x) == x.t = "l"

\* every dict with keys among K and values in V
DictsOver(K, V) == UNION {[ks -> V] : ks \in SUBSET K}

\* a list of n elements owned by o: element i is <<o, i>>
ListOf(o, n) == [i \in 1..n |-> <<o, i>>]

-----------------------------------------------------------------------------
(* Util.merge_dict *)

RECURSIVE merge_dict(_, _)

\* a slip that extends the list the wrong way round: other's elements first
MergeKeyOtherFirst(dst, other, k) ==
    IF k \in DOMAIN dst
    THEN IF IsDict(dst[k]) /\ IsDict(other[k])
         THEN [dst EXCEPT ![k] = D(merge_dict(dst[k].d, other[k].d))]
         ELSE IF IsList(dst[k]) /\ IsList(other[k])
              THEN [dst EXCEPT ![k] = L(other[k].l \o dst[k].l)]
              ELSE dst
    ELSE dst @@ (k :> other[k])

\* a slip that forgets the list branch: a list collision keeps dst's list
MergeKeyNoExtend(dst, other, k) ==
    IF k \in DOMAIN dst
    THEN IF IsDict(dst[k]) /\ IsDict(other[k])
         THEN [dst EXCEPT ![k] = D(merge_dict(dst[k].d, other[k].d))]
         ELSE dst
    ELSE dst @@ (k :> other[k])

\* a slip that never copies a key that dst lacks
MergeKeyNoCopy(dst, other, k) ==
    IF k \in DOMAIN dst
    THEN IF IsDict(dst[k]) /\ IsDict(other[k])
         THEN [dst EXCEPT ![k] = D(merge_dict(dst[k].d, other[k].d))]
         ELSE IF IsList(dst[k]) /\ IsList(other[k])
              THEN [dst EXCEPT ![k] = L(dst[k].l \o other[k].l)]
              ELSE dst
    ELSE dst

\* the body of the loop 'for k, v in other.items()': dst after key k of other
MergeKey(dst, other, k) ==
    IF k \in DOMAIN dst
    THEN IF IsDict(dst[k]) /\ IsDict(other[k])
         THEN [dst EXCEPT ![k] = D(merge_dict(dst[k].d, other[k].d))]
         ELSE IF IsList(dst[k]) /\ IsList(other[k])
              THEN [dst EXCEPT ![k] = L(dst[k].l \o other[k].l)]
              ELSE dst
    ELSE dst @@ (k :> other[k])

\* the loop over other.items(), the keys still to visit in todo
RECURSIVE MergeLoop(_, _, _)
MergeLoop(dst, other, todo) ==
    IF todo = {} THEN dst
    ELSE LET k == CHOOSE x \in todo : TRUE
         IN  MergeLoop(MergeKey(dst, other, k), other, todo \ {k})

\* dst after Util.merge_dict(dst, other)
merge_dict(dst, other) == MergeLoop(dst, other, DOMAIN other)

-----------------------------------------------------------------------------
(* merge_dict on its own: the documents it is given *)

TopKeys == {"libraries", "arguments"}
InnerKeys == {"jvm"}

Lists(o) == {ListOf(o, n) : n \in 0..MaxLen}
Leaves(o) == {S(o)} \cup {L(q) : q \in Lists(o)}
InnerDicts(o) == {D(f) : f \in DictsOver(InnerKeys, Leaves(o))}
\* the documents whose scalars and list elements are owned by o
Docs(o) == DictsOver(TopKeys, Leaves(o) \cup InnerDicts(o))

InitMergeVars ==
    /\ m_dst \in Docs("a")
    /\ m_other \in Docs("b")
    /\ m_res = EmptyDict
    /\ m_pc = "init"

\* merge_dict not called on its own
IdleMergeVars ==
    /\ m_dst = EmptyDict
    /\ m_other = EmptyDict
    /\ m_res = EmptyDict
    /\ m_pc = "off"

\* Util.merge_dict(dst, other)
MergeCall ==
    /\ m_pc = "init"
    /\ m_res' = merge_dict(m_dst, m_other)
    /\ m_pc' = "merged"
    /\ UNCHANGED <<m_dst, m_other>>
    /\ UNCHANGED nonMergeVars

\* Util.merge_dict(m, m): other is dst itself
MergeSelfCall ==
    /\ m_pc = "init"
    /\ m_res' = merge_dict(m_dst, m_dst)
    /\ m_pc' = "self"
    /\ UNCHANGED <<m_dst, m_other>>
    /\ UNCHANGED nonMergeVars

-----------------------------------------------------------------------------
(* VersionManifest *)

\* VersionManifest.filter_latest: <<the version id, whether 'version' was an alias>>
filter_latest(data, ver) ==
    IF ver \in DOMAIN data.latest THEN <<data.latest[ver], TRUE>> ELSE <<ver, FALSE>>

\* VersionManifest.get_version: <<>> (None) or <<the first entry with that id>>
get_version(data, ver) ==
    LET id == filter_latest(data, ver)[1]
        hits == {i \in 1..Len(data.versions) : data.versions[i].id = id}
    IN  IF hits = {} THEN <<>>
        ELSE <<data.versions[CHOOSE i \in hits : \A j \in hits : i <= j]>>

-----------------------------------------------------------------------------
(* The environment of install_meta: version descriptors, manifest, disk *)

Versions == {"v1", "v2", "v3"}
VersionOrder == <<"v1", "v2", "v3">>
NoParent == "-"

\* a version descriptor without its inheritsFrom key
BodyDoc(v, body) ==
    CASE body = "full"   -> [id |-> S(v), libraries |-> L(ListOf(v, LibLen)),
                             arguments |-> D([jvm |-> L(ListOf(v, 1))])]
      [] body = "alien"  -> [id |-> S("other"), libraries |-> L(ListOf(v, LibLen)),
                             mainClass |-> S(v)]
      [] body = "bare"   -> [mainClass |-> S(v)]
      [] body = "idonly" -> [id |-> S(v), mainClass |-> S(v)]

Descriptor(v, body, parent) ==
    IF parent = NoParent THEN BodyDoc(v, body)
    ELSE BodyDoc(v, body) @@ [inheritsFrom |-> S(parent)]

\* the version reached from x by following n inheritsFrom links of inh
RECURSIVE Up(_, _, _)
Up(inh, x, n) == IF x = NoParent \/ n = 0 THEN x ELSE Up(inh, inh[x], n - 1)

AllInh == [Versions -> Versions \cup {NoParent}]
AcyclicInh == {inh \in AllInh : \A v \in Versions : Up(inh, v, Cardinality(Versions)) = NoParent}
CyclicInh == AllInh \ AcyclicInh

\* the manifest document listing the versions of 'listed', in VersionOrder
RECURSIVE ManifestVersions(_, _)
ManifestVersions(listed, i) ==
    IF i > Len(VersionOrder) THEN <<>>
    ELSE (IF VersionOrder[i] \in listed
          THEN <<[id |-> VersionOrder[i], url |-> <<"meta", VersionOrder[i]>>]>>
          ELSE <<>>) \o ManifestVersions(listed, i + 1)

ManifestDoc(listed) ==
    [latest |-> [release |-> "v1", snapshot |-> "v2"], versions |-> ManifestVersions(listed, 1)]

AbsentFile == [st |-> "absent", doc |-> EmptyDict]
CorruptFile == [st |-> "corrupt", doc |-> EmptyDict]
\* json.dump(content, fp, indent=2): the file that decodes to content
JsonFile(content) == [st |-> "ok", doc |-> content]

\* The environments: every inheritance graph over Versions.  A graph with a cycle
\* carries list-free descriptors only (a list would grow at every turn of the cycle);
\* descriptors vary freely where all versions are listed and either all or none is
\* cached, and the disk and the manifest vary freely under fixed descriptors.
Environments ==
    LET Env(inh, body, st, listed) ==
            [docs   |-> [v \in Versions |-> Descriptor(v, body[v], inh[v])],
             st     |-> st,
             listed |-> listed]
        Uniform == {[v \in Versions |-> x] : x \in {"ok", "absent"}}
    IN  {Env(inh, body, st, Versions) :
            inh \in AcyclicInh,
            body \in [Versions -> {"full", "alien", "bare"}],
            st \in Uniform}
        \cup
        {Env(inh, [v \in Versions |-> "full"], st, listed) :
            inh \in AcyclicInh,
            st \in [Versions -> {"ok", "absent", "corrupt"}],
            listed \in SUBSET Versions}
        \cup
        {Env(inh, body, st, Versions) :
            inh \in CyclicInh,
            body \in [Versions -> {"bare", "idonly"}],
            st \in Uniform}

\* Version.__init__ on every environment
InitMetaVars ==
    /\ \E env \in Environments :
        /\ net_docs = env.docs
        /\ net_manifest = ManifestDoc(env.listed)
        /\ files = [v \in Versions |->
                        IF env.st[v] = "ok" THEN JsonFile(env.docs[v])
                        ELSE IF env.st[v] = "corrupt" THEN CorruptFile ELSE AbsentFile]
        /\ dirs = {v \in Versions : env.st[v] # "absent"}
    /\ version \in Versions
    /\ manifest = <<>>
    /\ version_meta = <<>>
    /\ version_dir = <<>>
    /\ pc = "idle"
    /\ l_version_meta = EmptyDict
    /\ l_parent_meta = EmptyDict
    /\ l_version_dir = <<>>
    /\ error = <<>>
    /\ resolved = <<>>
    /\ request = <<>>
    /\ calls = 0

\* no Version object
IdleMetaVars ==
    /\ net_docs = EmptyDict
    /\ net_manifest = ManifestDoc({})
    /\ files = EmptyDict
    /\ dirs = {}
    /\ version = ""
    /\ manifest = <<>>
    /\ version_meta = <<>>
    /\ version_dir = <<>>
    /\ pc = "off"
    /\ l_version_meta = EmptyDict
    /\ l_parent_meta = EmptyDict
    /\ l_version_dir = <<>>
    /\ error = <<>>
    /\ resolved = <<>>
    /\ request = <<>>
    /\ calls = 0

-----------------------------------------------------------------------------
(* Version.install_meta *)

JsonRequestError == <<"JsonRequestError", "">>
VersionNotFound(ver) == <<"VersionError.not_found", ver>>

\* path.join(self.context.main_dir, "versions", version)
VersionDir(ver) == <<"versions", ver>>

\* a slip that looks the version up and fetches it without trying the cached file
InstallMetaInternalNoCache(ver, netok) ==
    LET super == get_version(manifest[1], ver)
        same == [files |-> files, dirs |-> dirs, meta |-> EmptyDict, dir |-> <<>>]
    IN  IF super = <<>>
        THEN same @@ [raised |-> <<VersionNotFound(ver)>>, request |-> <<>>]
        ELSE IF ~netok
        THEN same @@ [raised |-> <<JsonRequestError>>, request |-> <<super[1].url>>]
        ELSE LET content == net_docs[super[1].url[2]]
             IN  [raised  |-> <<>>,
                  request |-> <<super[1].url>>,
                  meta    |-> content,
                  dir     |-> <<VersionDir(ver)>>,
                  files   |-> [files EXCEPT ![ver] = JsonFile(content)],
                  dirs    |-> dirs \cup {ver}]

\* Version._install_meta_internal(version): what it raises or returns, the request
\* it made, and the disk after it.  netok: whether the descriptor request succeeds.
InstallMetaInternal(ver, netok) ==
    LET same == [files |-> files, dirs |-> dirs, meta |-> EmptyDict, dir |-> <<>>]
    IN  IF files[ver].st = "ok"
        THEN [same EXCEPT !.meta = files[ver].doc, !.dir = <<VersionDir(ver)>>]
                @@ [raised |-> <<>>, request |-> <<>>]
        ELSE LET super == get_version(manifest[1], ver)
             IN  IF super = <<>>
                 THEN same @@ [raised |-> <<VersionNotFound(ver)>>, request |-> <<>>]
                 ELSE IF ~netok
                 THEN same @@ [raised |-> <<JsonRequestError>>, request |-> <<super[1].url>>]
                 ELSE LET content == net_docs[super[1].url[2]]
                      IN  [raised  |-> <<>>,
                           request |-> <<super[1].url>>,
                           meta    |-> content,
                           dir     |-> <<VersionDir(ver)>>,
                           files   |-> [files EXCEPT ![ver] = JsonFile(content)],
                           dirs    |-> dirs \cup {ver}]

\* the observer's log holds the first LogCap ids
LogCap == Cardinality(Versions) + 1
Record(log, ver) == IF Len(log) < LogCap THEN Append(log, ver) ELSE log

\* del version_meta["inheritsFrom"]
DelKey(doc, key) == [k \in DOMAIN doc \ {key} |-> doc[k]]

\* a slip that merges the child into the parent: the parent wins the collisions
LoopBodyParentWins(meta, parent_meta) ==
    merge_dict(parent_meta, DelKey(meta, "inheritsFrom"))

\* one turn of the while loop, after the parent was read: the local version_meta
LoopBody(meta, parent_meta) ==
    merge_dict(DelKey(meta, "inheritsFrom"), parent_meta)

\* the exception 'raised' leaves install_meta
Raise(raised) ==
    /\ pc' = "failed"
    /\ error' = raised
    /\ l_version_meta' = EmptyDict
    /\ l_parent_meta' = EmptyDict
    /\ l_version_dir' = <<>>
    /\ UNCHANGED <<version_meta, version_dir>>

\* install_meta is called; self.manifest is loaded when it is None
install_meta_begin ==
    /\ pc \in {"idle", "done", "failed"}
    /\ calls < MaxCalls
    /\ calls' = calls + 1
    /\ resolved' = <<>>
    /\ \/ /\ manifest # <<>>
          /\ pc' = "internal"
          /\ error' = <<>>
          /\ UNCHANGED manifest
       \/ /\ manifest = <<>>
          /\ \E netok \in BOOLEAN :
                IF netok
                THEN /\ manifest' = <<net_manifest>>
                     /\ pc' = "internal"
                     /\ error' = <<>>
                ELSE /\ pc' = "failed"
                     /\ error' = <<JsonRequestError>>
                     /\ UNCHANGED manifest
    /\ request' = <<>>
    /\ UNCHANGED <<envVars, version, version_meta, version_dir, l_version_meta,
                   l_parent_meta, l_version_dir>>
    /\ UNCHANGED nonMetaVars

\* version_meta, version_dir = self._install_meta_internal(self.version)
install_meta_first ==
    /\ pc = "internal"
    /\ \E netok \in BOOLEAN :
        LET r == InstallMetaInternal(version, netok)
        IN  /\ files' = r.files
            /\ dirs' = r.dirs
            /\ request' = r.request
            /\ resolved' = Record(resolved, version)
            /\ IF r.raised # <<>>
               THEN Raise(r.raised)
               ELSE /\ l_version_meta' = r.meta
                    /\ l_version_dir' = r.dir
                    /\ pc' = "loop"
                    /\ UNCHANGED <<l_parent_meta, version_meta, version_dir, error>>
    /\ UNCHANGED <<net_manifest, net_docs, version, manifest, calls>>
    /\ UNCHANGED nonMetaVars

\* 'while "inheritsFrom" in version_meta' holds:
\* parent_meta, _ = self._install_meta_internal(version_meta["inheritsFrom"])
install_meta_loop ==
    /\ pc = "loop"
    /\ "inheritsFrom" \in DOMAIN l_version_meta
    /\ \E netok \in BOOLEAN :
        LET parent == l_version_meta["inheritsFrom"].s
            r == InstallMetaInternal(parent, netok)
        IN  /\ files' = r.files
            /\ dirs' = r.dirs
            /\ request' = r.request
            /\ resolved' = Record(resolved, parent)
            /\ IF r.raised # <<>>
               THEN Raise(r.raised)
               ELSE /\ l_parent_meta' = r.meta
                    /\ pc' = "merge"
                    /\ UNCHANGED <<l_version_meta, l_version_dir, version_meta,
                                   version_dir, error>>
    /\ UNCHANGED <<net_manifest, net_docs, version, manifest, calls>>
    /\ UNCHANGED nonMetaVars

\* del version_meta["inheritsFrom"]; Util.merge_dict(version_meta, parent_meta)
install_meta_merge ==
    /\ pc = "merge"
    /\ l_version_meta' = LoopBody(l_version_meta, l_parent_meta)
    /\ l_parent_meta' = EmptyDict
    /\ pc' = "loop"
    /\ UNCHANGED <<envVars, version, manifest, version_meta, version_dir, l_version_dir,
                   error, resolved, request, calls>>
    /\ UNCHANGED nonMetaVars

\* the loop ends: self.version_meta, self.version_dir = version_meta, version_dir
install_meta_end ==
    /\ pc = "loop"
    /\ "inheritsFrom" \notin DOMAIN l_version_meta
    /\ version_meta' = <<l_version_meta>>
    /\ version_dir' = l_version_dir
    /\ pc' = "done"
    /\ l_version_meta' = EmptyDict
    /\ l_version_dir' = <<>>
    /\ UNCHANGED <<envVars, version, manifest, error, resolved, request, calls,
                   l_parent_meta>>
    /\ UNCHANGED nonMetaVars

-----------------------------------------------------------------------------
(* Auth sessions *)

\* Python's None as an attribute value
None == "None"

\* AuthSession.fields of the two registered types, in order
YggdrasilFields == <<"access_token", "username", "uuid", "client_token">>
MicrosoftFields ==
    <<"access_token", "username", "uuid", "refresh_token", "client_id", "redirect_uri">>

\* AuthDatabase.types
AuthTypes == {"yggdrasil", "microsoft"}
FieldsOf(typ) == IF typ = "yggdrasil" THEN YggdrasilFields ELSE MicrosoftFields

\* sess_type(*sess_params): YggdrasilAuthSession.__init__ / MicrosoftAuthSession.__init__;
\* a session is the mapping of its attributes
NewSession(typ, params) ==
    LET fields == FieldsOf(typ)
        attrs == [f \in {fields[i] : i \in 1..Len(fields)} |->
                    params[CHOOSE i \in 1..Len(fields) : fields[i] = f]]
    IN  IF typ = "microsoft"
        THEN attrs @@ [type |-> typ, _new_username |-> None]
        ELSE attrs @@ [type |-> typ]

-----------------------------------------------------------------------------
(* The JSON text of the auth file: objects keep the order of their members *)

JStr(x) == [t |-> "s", s |-> x, o |-> <<>>]
JObj(members) == [t |-> "o", s |-> "", o |-> members]
Member(k, v) == [k |-> k, v |-> v]

HasMember(obj, key) == \E i \in 1..Len(obj.o) : obj.o[i].k = key
GetMember(obj, key) == obj.o[CHOOSE i \in 1..Len(obj.o) : obj.o[i].k = key].v

\* the result of a loop over a dict's items that an exception may leave:
\* caught: an exception the 'except' clause of load swallows
LoadState(sessions, raised, caught) ==
    [sessions |-> sessions, raised |-> raised, caught |-> caught]

\* 'for field in sess_type.fields: sess_params.append(sess_data.get(field, ""))'
RECURSIVE SessParams(_, _, _)
SessParams(sess_data, fields, i) ==
    IF i > Len(fields) THEN <<>>
    ELSE <<IF HasMember(sess_data, fields[i]) THEN GetMember(sess_data, fields[i]).s ELSE "">>
         \o SessParams(sess_data, fields, i + 1)

\* 'for email, sess_data in sessions_data.items()', from member i on; st.sessions[typ]
\* is the dict being filled
RECURSIVE LoadSessions(_, _, _, _)
LoadSessions(st, typ, members, i) ==
    IF i > Len(members) THEN st
    ELSE LET email == members[i].k
             sess_data == members[i].v
         IN  IF sess_data.t # "o"
             THEN \* sess_data.get: AttributeError, which load does not catch
                  [st EXCEPT !.raised = <<"AttributeError">>]
             ELSE LoadSessions(
                    [st EXCEPT !.sessions[typ] =
                        (email :> NewSession(typ, SessParams(sess_data, FieldsOf(typ), 1)))
                            @@ st.sessions[typ]],
                    typ, members, i + 1)

\* 'for typ, typ_data in data.items()', from member i on
RECURSIVE LoadTypes(_, _, _)
LoadTypes(st, members, i) ==
    IF i > Len(members) THEN st
    ELSE LET typ == members[i].k
             typ_data == members[i].v
         IN  IF typ \notin AuthTypes THEN LoadTypes(st, members, i + 1)
             ELSE LET st1 == [st EXCEPT !.sessions = (typ :> EmptyDict) @@ st.sessions]
                  IN  IF typ_data.t # "o"
                      THEN [st1 EXCEPT !.caught = <<"TypeError">>]
                      ELSE IF ~HasMember(typ_data, "sessions")
                      THEN [st1 EXCEPT !.caught = <<"KeyError">>]
                      ELSE LET sessions_data == GetMember(typ_data, "sessions")
                           IN  IF sessions_data.t # "o"
                               THEN \* sessions_data.items: AttributeError, not caught
                                    [st1 EXCEPT !.raised = <<"AttributeError">>]
                               ELSE LET st2 == LoadSessions(st1, typ, sessions_data.o, 1)
                                    IN  IF st2.raised # <<>> THEN st2
                                        ELSE LoadTypes(st2, members, i + 1)

\* the try block of AuthDatabase.load on the primary file, self._sessions being sessions
LoadPrimary(file, sessions) ==
    LET st == LoadState(sessions, <<>>, <<>>)
    IN  IF file.st = "absent" THEN [st EXCEPT !.caught = <<"OSError">>]
        ELSE IF file.st # "json" THEN [st EXCEPT !.caught = <<"JSONDecodeError">>]
        ELSE IF file.val.t # "o"
        THEN \* data.items: AttributeError, not caught
             [st EXCEPT !.raised = <<"AttributeError">>]
        ELSE LoadTypes(st, file.val.o, 1)

\* a legacy line is its space-separated tokens, and whether a newline ends it;
\* line.split(" "): the newline stays at the end of the last part
Parts(line) ==
    IF line.nl /\ line.tokens # <<>>
    THEN [i \in 1..Len(line.tokens) |->
            IF i = Len(line.tokens) THEN line.tokens[i] \o "\n" ELSE line.tokens[i]]
    ELSE line.tokens

\* AuthDatabase.put: self._sessions after it and the exception it raises
Put(sessions, key, sess) ==
    LET typ == sess["type"]
    IN  IF typ \notin DOMAIN sessions /\ typ \notin AuthTypes
        THEN [sessions |-> sessions, raised |-> <<"ValueError">>]
        ELSE LET old == IF typ \in DOMAIN sessions THEN sessions[typ] ELSE EmptyDict
             IN  [sessions |-> (typ :> ((key :> sess) @@ old)) @@ sessions,
                  raised   |-> <<>>]

\* the loop of _load_legacy_and_delete over fp.readlines(), from line i on
RECURSIVE LoadLegacyLines(_, _, _)
LoadLegacyLines(sessions, lines, i) ==
    IF i > Len(lines) THEN sessions
    ELSE LET parts == Parts(lines[i])
         IN  IF Len(parts) = 5
             THEN LoadLegacyLines(
                    Put(sessions, parts[1],
                        NewSession("yggdrasil",
                                   <<parts[5], parts[3], parts[4], parts[2]>>)).sessions,
                    lines, i + 1)
             ELSE LoadLegacyLines(sessions, lines, i + 1)

AbsentText == [st |-> "absent", lines |-> <<>>]

\* AuthDatabase.load on a database whose files are file and legacy:
\* _sessions, the legacy file and the exception after it
Load(file, legacy) ==
    LET cleared == EmptyDict
        import == file.st = "absent" /\ legacy.st # "absent"
        imported == IF import THEN LoadLegacyLines(cleared, legacy.lines, 1) ELSE cleared
        st == LoadPrimary(file, imported)
    IN  [sessions |-> st.sessions,
         raised   |-> st.raised,
         legacy   |-> IF import THEN AbsentText ELSE legacy]

\* a slip that writes the fields of the base class AuthSession for every type
SessDataBaseFields(typ, sess) ==
    LET fields == <<"access_token", "username", "uuid">>
    IN  JObj([i \in 1..Len(fields) |-> Member(fields[i], JStr(sess[fields[i]]))])

\* 'for field in sess_type.fields: sess_data[field] = getattr(sess, field)'
SessData(typ, sess) ==
    LET fields == FieldsOf(typ)
    IN  JObj([i \in 1..Len(fields) |-> Member(fields[i], JStr(sess[fields[i]]))])

\* The model does not keep the insertion order of self._sessions: save writes the
\* types in TypeOrder and the keys of a type in EmailOrder.
TypeOrder == <<"yggdrasil", "microsoft">>
Emails == {"k1", "k2"}
EmailOrder == <<"k1", "k2">>
Ordered(keys, order) == SelectSeq(order, LAMBDA x : x \in keys)

\* the document AuthDatabase.save dumps
SaveDoc(sessions) ==
    LET typs == Ordered(DOMAIN sessions \cap AuthTypes, TypeOrder)
        SessionsData(typ) ==
            LET emails == Ordered(DOMAIN sessions[typ], EmailOrder)
            IN  JObj([i \in 1..Len(emails) |->
                        Member(emails[i], SessData(typ, sessions[typ][emails[i]]))])
    IN  JObj([i \in 1..Len(typs) |->
                Member(typs[i], JObj(<<Member("sessions", SessionsData(typs[i]))>>))])

-----------------------------------------------------------------------------
(* The AuthDatabase and its files *)

JsonText(val) == [st |-> "json", val |-> val]
AbsentJson == [st |-> "absent", val |-> JStr("")]
\* a file that is no JSON document
GarbageJson == [st |-> "garbage", val |-> JStr("")]
\* the file right after open(self._filename, "wt")
EmptyJson == [st |-> "empty", val |-> JStr("")]

\* the sessions handed to put
Yggdrasil1 == NewSession("yggdrasil", <<"at1", "u1", "id1", "ct1">>)
Microsoft1 == NewSession("microsoft", <<"at2", "u2", "id2", "rt2", "cid", "uri">>)
\* an AuthSession of the base class: type "raw"
Raw1 == [type |-> "raw", access_token |-> "at3", username |-> "u3", uuid |-> "id3"]
\* the calls of put: a key and a session
PutInputs == {<<"k1", Yggdrasil1>>, <<"k2", Yggdrasil1>>, <<"k1", Microsoft1>>, <<"k2", Raw1>>}

\* the names the profile endpoint answers with
ProfileNames == {"u2", "u5"}

\* the values found under a type tag in an auth file at start
WholeData(typ) == SessData(typ, IF typ = "yggdrasil" THEN Yggdrasil1 ELSE Microsoft1)
SessionsOf(v) == JObj(<<Member("sessions", v)>>)
WellFormed(typ) == SessionsOf(JObj(<<Member("k1", WholeData(typ))>>))
TypDatas(typ) ==
    {WellFormed(typ),
     \* fields missing
     SessionsOf(JObj(<<Member("k2", JObj(<<Member("username", JStr("u7"))>>))>>)),
     \* no "sessions"
     JObj(<<>>),
     \* no mapping
     JStr("x"),
     \* "sessions" is no mapping
     SessionsOf(JStr("x")),
     \* a session that is no mapping, after a well-formed one
     SessionsOf(JObj(<<Member("k1", WholeData(typ)), Member("k2", JStr("x"))>>))}

Entries(typ) == {Member(typ, v) : v \in TypDatas(typ)}
OtherEntry == Member("other", JStr("x"))
Opposite(typ) == IF typ = "yggdrasil" THEN "microsoft" ELSE "yggdrasil"

\* the primary files at start: absent, no JSON, JSON that is no object, and objects
\* of one entry, or of two whose first is an unknown tag or is well-formed
InitFiles ==
    {AbsentJson, GarbageJson, JsonText(JStr("x")), JsonText(JObj(<<>>)),
     JsonText(JObj(<<OtherEntry>>))}
    \cup UNION {{JsonText(JObj(<<e>>)) : e \in Entries(typ)} : typ \in AuthTypes}
    \cup UNION {{JsonText(JObj(<<Member(typ, WellFormed(typ)), e>>)) :
                    e \in Entries(Opposite(typ))} : typ \in AuthTypes}
    \cup {JsonText(JObj(<<OtherEntry, Member(typ, WellFormed(typ))>>)) : typ \in AuthTypes}

\* the legacy files at start
InitLegacies ==
    {AbsentText,
     [st |-> "text", lines |-> <<[tokens |-> <<"k1", "ct9", "u9", "id9", "at9">>, nl |-> TRUE]>>],
     [st |-> "text", lines |-> <<[tokens |-> <<"k2", "ct8", "u8", "id8">>, nl |-> TRUE],
                                 [tokens |-> <<"k2", "ct9", "u9", "id9", "at9">>, nl |-> FALSE]>>]}

NoRet == [kind |-> "none", b |-> FALSE, sess |-> EmptyDict]
\* the arguments of put, get and remove that name the pair
Args(key, typ, sess) == [key |-> key, typ |-> typ, sess |-> sess]
NoArgs == Args("", "", EmptyDict)
RetBool(b) == [kind |-> "bool", b |-> b, sess |-> EmptyDict]
RetSession(sess) == [kind |-> "session", b |-> FALSE, sess |-> sess]

\* AuthDatabase.__init__
InitAuthVars ==
    /\ a_file \in InitFiles
    /\ a_legacy \in InitLegacies
    /\ a_sessions = EmptyDict
    /\ a_sessions2 = <<>>
    /\ a_pre = EmptyDict
    /\ a_args = NoArgs
    /\ a_pc = "idle"
    /\ a_last = "init"
    /\ a_raised = <<>>
    /\ a_ret = NoRet

\* no AuthDatabase
IdleAuthVars ==
    /\ a_file = AbsentJson
    /\ a_legacy = AbsentText
    /\ a_sessions = EmptyDict
    /\ a_sessions2 = <<>>
    /\ a_pre = EmptyDict
    /\ a_args = NoArgs
    /\ a_pc = "off"
    /\ a_last = "init"
    /\ a_raised = <<>>
    /\ a_ret = NoRet

\* AuthDatabase.put(email_or_username, sess)
auth_put ==
    /\ a_pc = "idle"
    /\ \E inp \in PutInputs :
        LET r == Put(a_sessions, inp[1], inp[2])
        IN  /\ a_sessions' = r.sessions
            /\ a_raised' = r.raised
            /\ a_args' = Args(inp[1], inp[2]["type"], inp[2])
    /\ a_last' = "put"
    /\ a_ret' = NoRet
    /\ a_sessions2' = <<>>
    /\ UNCHANGED <<a_file, a_legacy, a_pc>>
    /\ a_pre' = a_sessions
    /\ UNCHANGED nonAuthVars

\* a get that looks under the first type tag that has the key
GetAnyType(sessions, key, typ) ==
    IF \E t \in DOMAIN sessions : key \in DOMAIN sessions[t]
    THEN RetSession(sessions[CHOOSE t \in DOMAIN sessions : key \in DOMAIN sessions[t]][key])
    ELSE NoRet

\* AuthDatabase.get: what it returns
Get(sessions, key, typ) ==
    IF typ \notin DOMAIN sessions THEN NoRet
    ELSE IF key \notin DOMAIN sessions[typ] THEN NoRet
    ELSE RetSession(sessions[typ][key])

\* AuthDatabase.get(email_or_username, sess_type)
auth_get ==
    /\ a_pc = "idle"
    /\ \E key \in Emails, typ \in AuthTypes \cup {"raw"} :
        /\ a_args' = Args(key, typ, EmptyDict)
        /\ a_ret' = Get(a_sessions, key, typ)
    /\ a_last' = "get"
    /\ a_raised' = <<>>
    /\ a_pre' = a_sessions
    /\ UNCHANGED <<a_file, a_legacy, a_sessions, a_sessions2, a_pc>>
    /\ UNCHANGED nonAuthVars

\* AuthDatabase.remove(email_or_username, sess_type)
auth_remove ==
    /\ a_pc = "idle"
    /\ \E key \in Emails, typ \in AuthTypes \cup {"raw"} :
        /\ a_args' = Args(key, typ, EmptyDict)
        /\ IF typ \in DOMAIN a_sessions /\ key \in DOMAIN a_sessions[typ]
           THEN /\ a_sessions' = [a_sessions EXCEPT ![typ] =
                                       [k \in DOMAIN a_sessions[typ] \ {key} |-> a_sessions[typ][k]]]
                /\ a_ret' = RetSession(a_sessions[typ][key])
           ELSE /\ a_ret' = NoRet
                /\ UNCHANGED a_sessions
    /\ a_last' = "remove"
    /\ a_raised' = <<>>
    /\ a_sessions2' = <<>>
    /\ UNCHANGED <<a_file, a_legacy, a_pc>>
    /\ a_pre' = a_sessions
    /\ UNCHANGED nonAuthVars

\* MicrosoftAuthSession.validate on the session stored under a key.
\* The profile request raises, or answers a status and, on 200, a name.
ms_validate ==
    /\ a_pc = "idle"
    /\ "microsoft" \in DOMAIN a_sessions
    /\ \E key \in DOMAIN a_sessions["microsoft"] :
        LET sess == a_sessions["microsoft"][key]
            cleared == [sess EXCEPT !["_new_username"] = None]
            Store(x) == [a_sessions EXCEPT !["microsoft"][key] = x]
        IN  \/ /\ a_sessions' = Store(cleared)
               /\ a_raised' = <<"JsonRequestError">>
               /\ a_ret' = NoRet
            \/ \E code \in {200, 401}, name \in ProfileNames :
                /\ a_raised' = <<>>
                /\ IF code = 200
                   THEN IF sess["username"] # name
                        THEN /\ a_sessions' = Store([cleared EXCEPT !["_new_username"] = name])
                             /\ a_ret' = RetBool(FALSE)
                        ELSE /\ a_sessions' = Store(cleared)
                             /\ a_ret' = RetBool(TRUE)
                   ELSE /\ a_sessions' = Store(cleared)
                        /\ a_ret' = RetBool(FALSE)
    /\ a_last' = "validate"
    /\ a_sessions2' = <<>>
    /\ UNCHANGED <<a_file, a_legacy, a_pc>>
    /\ a_pre' = EmptyDict
    /\ a_args' = NoArgs
    /\ UNCHANGED nonAuthVars

\* AuthDatabase.save, first step: open(self._filename, "wt") empties the file, or fails
auth_save_open ==
    /\ a_pc = "idle"
    /\ \/ /\ a_file' = EmptyJson
          /\ a_pc' = "saving"
          /\ a_raised' = <<>>
       \/ /\ a_raised' = <<"OSError">>
          /\ UNCHANGED <<a_file, a_pc>>
    /\ a_last' = "save_open"
    /\ a_ret' = NoRet
    /\ a_sessions2' = <<>>
    /\ UNCHANGED <<a_legacy, a_sessions>>
    /\ a_pre' = EmptyDict
    /\ a_args' = NoArgs
    /\ UNCHANGED nonAuthVars

\* AuthDatabase.save, second step: json.dump(data, fp, indent=2) and the file is closed
auth_save_dump ==
    /\ a_pc = "saving"
    /\ a_file' = JsonText(SaveDoc(a_sessions))
    /\ a_pc' = "idle"
    /\ a_last' = "save"
    /\ UNCHANGED <<a_legacy, a_sessions, a_sessions2, a_raised, a_ret>>
    /\ a_pre' = EmptyDict
    /\ a_args' = NoArgs
    /\ UNCHANGED nonAuthVars

\* AuthDatabase.save, second step failing: a write of json.dump raises OSError (a full
\* disk), the 'with' block closes the file and the exception leaves save
auth_save_fail ==
    /\ a_pc = "saving"
    /\ a_pc' = "idle"
    /\ a_last' = "save_failed"
    /\ a_raised' = <<"OSError">>
    /\ UNCHANGED <<a_file, a_legacy, a_sessions, a_sessions2, a_ret>>
    /\ a_pre' = EmptyDict
    /\ a_args' = NoArgs
    /\ UNCHANGED nonAuthVars

\* AuthDatabase.load
auth_load ==
    /\ a_pc = "idle"
    /\ LET r == Load(a_file, a_legacy)
       IN  /\ a_sessions' = r.sessions
           /\ a_legacy' = r.legacy
           /\ a_raised' = r.raised
    /\ a_last' = "load"
    /\ a_ret' = NoRet
    /\ a_sessions2' = <<>>
    /\ UNCHANGED <<a_file, a_pc>>
    /\ a_pre' = EmptyDict
    /\ a_args' = NoArgs
    /\ UNCHANGED nonAuthVars

\* AuthDatabase(filename, legacy_filename).load(): a fresh database on the same files
auth_load_fresh ==
    /\ a_pc = "idle"
    /\ a_last \in {"save", "put", "remove", "validate", "load"}
    /\ LET r == Load(a_file, a_legacy)
       IN  /\ a_sessions2' = <<r.sessions>>
           /\ a_legacy' = r.legacy
           /\ a_raised' = r.raised
    /\ a_last' = IF a_last = "save" THEN "save_load" ELSE "fresh_load"
    /\ a_ret' = NoRet
    /\ UNCHANGED <<a_file, a_sessions, a_pc>>
    /\ a_pre' = EmptyDict
    /\ a_args' = NoArgs
    /\ UNCHANGED nonAuthVars

-----------------------------------------------------------------------------
(* Servers and Util.json_request as its callers see it *)

\* What a server does with a request: the connection fails, or it answers a status
\* with a body that is no JSON, or a status with a JSON object. The members of a
\* body are strings; a nested member is named by its path.
NoResponse == [kind |-> "none", code |-> 0, body |-> EmptyDict]
Fail == [kind |-> "fail", code |-> 0, body |-> EmptyDict]
NotJsonBody(code) == [kind |-> "notjson", code |-> code, body |-> EmptyDict]
JsonBody(code, body) == [kind |-> "json", code |-> code, body |-> body]

SocketError == <<"JsonRequestError", "socket_error">>
NotJson == <<"JsonRequestError", "invalid_response_not_json">>
KeyError == <<"KeyError">>

\* (status, document) or the exception of Util.json_request for a response
JsonRequestResult(resp, ignore_error) ==
    IF resp.kind \in {"fail", "readfail"}
    THEN [raised |-> <<SocketError>>, code |-> 0, res |-> EmptyDict]
    ELSE IF resp.kind = "notjson"
    THEN IF ignore_error
         THEN [raised |-> <<>>, code |-> resp.code, res |-> EmptyDict]
         ELSE [raised |-> <<NotJson>>, code |-> 0, res |-> EmptyDict]
    ELSE [raised |-> <<>>, code |-> resp.code, res |-> resp.body]

\* the log of a call after a request to url and what came back
Exchange(log, url, resp) ==
    log \o <<[ev |-> "request", url |-> url]>>
        \o (IF resp.kind = "fail" THEN <<>> ELSE <<[ev |-> "response", url |-> url]>>)

\* res[k] for every k of keys raises no KeyError
HasKeys(res, keys) == keys \subseteq DOMAIN res

-----------------------------------------------------------------------------
(* MicrosoftAuthSession *)

InconsistentUserHash == <<"AuthError", "microsoft.inconsistent_user_hash">>
DoesNotOwnMinecraft == <<"AuthError", "microsoft.does_not_own_minecraft">>
OutdatedToken == <<"AuthError", "microsoft.outdated_token">>
AuthFailed(message) == <<"AuthError", "microsoft", message>>

\* the five requests of authenticate_base, in the order of the code
MS_OAUTH_TOKEN_URL == "oauth_token"
MS_XBL_AUTH_URL == "xbl_auth"
MS_XSTS_AUTH_URL == "xsts_authorize"
MC_AUTH_URL == "mc_auth"
MC_PROFILE_URL == "mc_profile"

NoLocals ==
    [ms_refresh_token |-> "", ms_access_token |-> "", xbl_token |-> "",
     xbl_user_hash |-> "", xsts_token |-> "", xsts_user_hash |-> "",
     mc_access_token |-> ""]

\* what the servers of the chain answer
UserHashes == {"h1", "h2"}
TokenResponses ==
    {Fail, NotJsonBody(500), JsonBody(400, [error |-> "invalid_grant"]),
     JsonBody(200, [refresh_token |-> "rt5", access_token |-> "ma"])}
XblResponses ==
    {Fail, JsonBody(200, [Token |-> "xt"])}
    \cup {JsonBody(200, [Token |-> "xt", uhs |-> h]) : h \in UserHashes}
XstsResponses ==
    {Fail, JsonBody(401, [XErr |-> "x"])}
    \cup {JsonBody(200, [Token |-> "st", uhs |-> h]) : h \in UserHashes}
McAuthResponses ==
    {Fail, JsonBody(403, [error |-> "e1"]), JsonBody(200, [access_token |-> "at5"])}
ProfileBodies ==
    {[name |-> n, id |-> "id5"] : n \in ProfileNames}
    \cup {[name |-> "u5", id |-> "id5", error |-> "e1"],
          [error |-> "e1"], [error |-> "e1", errorMessage |-> "m1"], EmptyDict}
ProfileCodes == {200, 401, 404, 500}
ProfileResponses ==
    {Fail, NotJsonBody(404)} \cup {JsonBody(c, b) : c \in ProfileCodes, b \in ProfileBodies}

\* a slip that goes on whatever the user hash of the XSTS response
XstsCheckSkipped(xbl_user_hash, xsts_user_hash) == <<>>

\* 'if xbl_user_hash != res["DisplayClaims"]["xui"][0]["uhs"]: raise'
XstsCheck(xbl_user_hash, xsts_user_hash) ==
    IF xbl_user_hash # xsts_user_hash THEN <<InconsistentUserHash>> ELSE <<>>

\* a slip that takes 401 for 404 and 404 for 401
ProfileOutcomeSwapped(code, res, loc) ==
    IF code = 401 THEN [raised |-> <<DoesNotOwnMinecraft>>, res |-> <<>>]
    ELSE IF code = 404 THEN [raised |-> <<OutdatedToken>>, res |-> <<>>]
    ELSE IF "error" \in DOMAIN res \/ code # 200
    THEN [raised |-> <<AuthFailed(IF "errorMessage" \in DOMAIN res THEN res["errorMessage"]
                                  ELSE IF "error" \in DOMAIN res THEN res["error"]
                                  ELSE "Unknown error")>>,
          res |-> <<>>]
    ELSE IF ~HasKeys(res, {"name", "id"}) THEN [raised |-> <<KeyError>>, res |-> <<>>]
    ELSE [raised |-> <<>>,
          res |-> <<[refresh_token |-> loc.ms_refresh_token,
                     access_token |-> loc.mc_access_token,
                     username |-> res["name"], uuid |-> res["id"]]>>]

\* the end of authenticate_base: the status and document of the profile request
\* become an exception or the returned dict
ProfileOutcome(code, res, loc) ==
    IF code = 404 THEN [raised |-> <<DoesNotOwnMinecraft>>, res |-> <<>>]
    ELSE IF code = 401 THEN [raised |-> <<OutdatedToken>>, res |-> <<>>]
    ELSE IF "error" \in DOMAIN res \/ code # 200
    THEN [raised |-> <<AuthFailed(IF "errorMessage" \in DOMAIN res THEN res["errorMessage"]
                                  ELSE IF "error" \in DOMAIN res THEN res["error"]
                                  ELSE "Unknown error")>>,
          res |-> <<>>]
    ELSE IF ~HasKeys(res, {"name", "id"}) THEN [raised |-> <<KeyError>>, res |-> <<>>]
    ELSE [raised |-> <<>>,
          res |-> <<[refresh_token |-> loc.ms_refresh_token,
                     access_token |-> loc.mc_access_token,
                     username |-> res["name"], uuid |-> res["id"]]>>]

\* a slip that keeps the pending name in its slot
RefreshRenameKept(sess) == [sess EXCEPT !["username"] = sess["_new_username"]]

\* refresh with a pending rename: 'self.username = self._new_username;
\* self._new_username = None'
RefreshRename(sess) ==
    [sess EXCEPT !["username"] = sess["_new_username"], !["_new_username"] = None]

\* a slip that forgets the uuid
RefreshAssignNoUuid(sess, res) ==
    [sess EXCEPT !["access_token"] = res.access_token, !["username"] = res.username,
                 !["refresh_token"] = res.refresh_token]

\* the four assignments that end refresh
RefreshAssign(sess, res) ==
    [sess EXCEPT !["access_token"] = res.access_token, !["username"] = res.username,
                 !["uuid"] = res.uuid, !["refresh_token"] = res.refresh_token]

\* a slip that keeps a pending rename across validate
MsValidateKept(sess, resp) ==
    LET r == JsonRequestResult(resp, FALSE)
    IN  IF r.raised # <<>> THEN [sess |-> sess, raised |-> r.raised, ret |-> NoRet]
        ELSE IF r.code = 200
        THEN IF "name" \notin DOMAIN r.res
             THEN [sess |-> sess, raised |-> <<KeyError>>, ret |-> NoRet]
             ELSE IF sess["username"] # r.res["name"]
             THEN [sess |-> [sess EXCEPT !["_new_username"] = r.res["name"]],
                   raised |-> <<>>, ret |-> RetBool(FALSE)]
             ELSE [sess |-> sess, raised |-> <<>>, ret |-> RetBool(TRUE)]
        ELSE [sess |-> sess, raised |-> <<>>, ret |-> RetBool(FALSE)]

\* MicrosoftAuthSession.validate for the response of the profile request:
\* the session after it, the exception and the returned value
MsValidate(sess, resp) ==
    LET cleared == [sess EXCEPT !["_new_username"] = None]
        r == JsonRequestResult(resp, FALSE)
    IN  IF r.raised # <<>> THEN [sess |-> cleared, raised |-> r.raised, ret |-> NoRet]
        ELSE IF r.code = 200
        THEN IF "name" \notin DOMAIN r.res
             THEN [sess |-> cleared, raised |-> <<KeyError>>, ret |-> NoRet]
             ELSE IF cleared["username"] # r.res["name"]
             THEN [sess |-> [cleared EXCEPT !["_new_username"] = r.res["name"]],
                   raised |-> <<>>, ret |-> RetBool(FALSE)]
             ELSE [sess |-> cleared, raised |-> <<>>, ret |-> RetBool(TRUE)]
        ELSE [sess |-> cleared, raised |-> <<>>, ret |-> RetBool(FALSE)]

\* the sessions a call is made on
InitSessVars ==
    /\ s_sess \in {Microsoft1, Yggdrasil1}
    /\ s_pre = s_sess
    /\ s_pc = "idle"
    /\ s_log = <<>>
    /\ s_in = NoResponse
    /\ s_loc = NoLocals
    /\ s_res = <<>>
    /\ s_raised = <<>>
    /\ s_ret = NoRet
    /\ s_last = "init"

\* no session
IdleSessVars ==
    /\ s_sess = EmptyDict
    /\ s_pre = EmptyDict
    /\ s_pc = "off"
    /\ s_log = <<>>
    /\ s_in = NoResponse
    /\ s_loc = NoLocals
    /\ s_res = <<>>
    /\ s_raised = <<>>
    /\ s_ret = NoRet
    /\ s_last = "init"

\* MicrosoftAuthSession.validate()
ms_session_validate ==
    /\ s_pc = "idle"
    /\ s_sess["type"] = "microsoft"
    /\ \E resp \in ProfileResponses :
        LET r == MsValidate(s_sess, resp)
        IN  /\ s_sess' = r.sess
            /\ s_raised' = r.raised
            /\ s_ret' = r.ret
            /\ s_in' = resp
            /\ s_log' = Exchange(<<>>, MC_PROFILE_URL, resp)
    /\ s_pre' = s_sess
    /\ s_last' = "validate"
    /\ s_loc' = NoLocals
    /\ s_res' = <<>>
    /\ UNCHANGED s_pc
    /\ UNCHANGED nonSessVars

\* MicrosoftAuthSession.refresh(): the pending rename is taken, or
\* authenticate_base is entered
ms_refresh ==
    /\ s_pc = "idle"
    /\ s_sess["type"] = "microsoft"
    /\ IF s_sess["_new_username"] # None
       THEN /\ s_sess' = RefreshRename(s_sess)
            /\ s_last' = "refresh_rename"
            /\ UNCHANGED s_pc
       ELSE /\ s_pc' = MS_OAUTH_TOKEN_URL
            /\ s_last' = "refresh_chain"
            /\ UNCHANGED s_sess
    /\ s_pre' = s_sess
    /\ s_log' = <<>>
    /\ s_in' = NoResponse
    /\ s_loc' = NoLocals
    /\ s_res' = <<>>
    /\ s_raised' = <<>>
    /\ s_ret' = NoRet
    /\ UNCHANGED nonSessVars

\* an exception leaves authenticate_base and refresh
ChainRaise(raised) ==
    /\ s_raised' = raised
    /\ s_pc' = "idle"
    /\ UNCHANGED <<s_loc, s_res>>

\* authenticate_base: the request to the token endpoint, res["refresh_token"] and
\* the res["access_token"] of the next payload
oauth_token ==
    /\ s_pc = MS_OAUTH_TOKEN_URL
    /\ \E resp \in TokenResponses :
        LET r == JsonRequestResult(resp, FALSE)
        IN  /\ s_in' = resp
            /\ s_log' = Exchange(s_log, MS_OAUTH_TOKEN_URL, resp)
            /\ IF r.raised # <<>> THEN ChainRaise(r.raised)
               ELSE IF ~HasKeys(r.res, {"refresh_token", "access_token"})
               THEN ChainRaise(<<KeyError>>)
               ELSE /\ s_loc' = [s_loc EXCEPT !.ms_refresh_token = r.res["refresh_token"],
                                              !.ms_access_token = r.res["access_token"]]
                    /\ s_pc' = MS_XBL_AUTH_URL
                    /\ UNCHANGED <<s_raised, s_res>>
    /\ UNCHANGED <<s_sess, s_pre, s_ret, s_last>>
    /\ UNCHANGED nonSessVars

\* authenticate_base: the request to Xbox Live, res["Token"] and the user hash
xbl_auth ==
    /\ s_pc = MS_XBL_AUTH_URL
    /\ \E resp \in XblResponses :
        LET r == JsonRequestResult(resp, FALSE)
        IN  /\ s_in' = resp
            /\ s_log' = Exchange(s_log, MS_XBL_AUTH_URL, resp)
            /\ IF r.raised # <<>> THEN ChainRaise(r.raised)
               ELSE IF ~HasKeys(r.res, {"Token", "uhs"})
               THEN ChainRaise(<<KeyError>>)
               ELSE /\ s_loc' = [s_loc EXCEPT !.xbl_token = r.res["Token"],
                                              !.xbl_user_hash = r.res["uhs"]]
                    /\ s_pc' = MS_XSTS_AUTH_URL
                    /\ UNCHANGED <<s_raised, s_res>>
    /\ UNCHANGED <<s_sess, s_pre, s_ret, s_last>>
    /\ UNCHANGED nonSessVars

\* authenticate_base: the request to XSTS, res["Token"] and the test of the user hash
xsts_authorize ==
    /\ s_pc = MS_XSTS_AUTH_URL
    /\ \E resp \in XstsResponses :
        LET r == JsonRequestResult(resp, FALSE)
        IN  /\ s_in' = resp
            /\ s_log' = Exchange(s_log, MS_XSTS_AUTH_URL, resp)
            /\ IF r.raised # <<>> THEN ChainRaise(r.raised)
               ELSE IF ~HasKeys(r.res, {"Token", "uhs"})
               THEN ChainRaise(<<KeyError>>)
               ELSE /\ s_loc' = [s_loc EXCEPT !.xsts_token = r.res["Token"],
                                              !.xsts_user_hash = r.res["uhs"]]
                    /\ s_res' = <<>>
                    /\ LET check == XstsCheck(s_loc.xbl_user_hash, r.res["uhs"])
                       IN  /\ s_raised' = check
                           /\ s_pc' = IF check # <<>> THEN "idle" ELSE MC_AUTH_URL
    /\ UNCHANGED <<s_sess, s_pre, s_ret, s_last>>
    /\ UNCHANGED nonSessVars

\* authenticate_base: the request to the game service and res["access_token"]
mc_auth ==
    /\ s_pc = MC_AUTH_URL
    /\ \E resp \in McAuthResponses :
        LET r == JsonRequestResult(resp, FALSE)
        IN  /\ s_in' = resp
            /\ s_log' = Exchange(s_log, MC_AUTH_URL, resp)
            /\ IF r.raised # <<>> THEN ChainRaise(r.raised)
               ELSE IF ~HasKeys(r.res, {"access_token"})
               THEN ChainRaise(<<KeyError>>)
               ELSE /\ s_loc' = [s_loc EXCEPT !.mc_access_token = r.res["access_token"]]
                    /\ s_pc' = MC_PROFILE_URL
                    /\ UNCHANGED <<s_raised, s_res>>
    /\ UNCHANGED <<s_sess, s_pre, s_ret, s_last>>
    /\ UNCHANGED nonSessVars

\* authenticate_base: the profile request and the end of the function
mc_profile ==
    /\ s_pc = MC_PROFILE_URL
    /\ \E resp \in ProfileResponses :
        LET r == JsonRequestResult(resp, FALSE)
        IN  /\ s_in' = resp
            /\ s_log' = Exchange(s_log, MC_PROFILE_URL, resp)
            /\ IF r.raised # <<>> THEN ChainRaise(r.raised)
               ELSE LET out == ProfileOutcome(r.code, r.res, s_loc)
                    IN  /\ s_raised' = out.raised
                        /\ s_res' = out.res
                        /\ s_pc' = IF out.raised # <<>> THEN "idle" ELSE "assign"
                        /\ UNCHANGED s_loc
    /\ UNCHANGED <<s_sess, s_pre, s_ret, s_last>>
    /\ UNCHANGED nonSessVars

\* refresh: the assignments from the dict authenticate_base returned
ms_refresh_assign ==
    /\ s_pc = "assign"
    /\ s_sess' = RefreshAssign(s_sess, s_res[1])
    /\ s_pc' = "idle"
    /\ UNCHANGED <<s_pre, s_log, s_in, s_loc, s_res, s_raised, s_ret, s_last>>
    /\ UNCHANGED nonSessVars

-----------------------------------------------------------------------------
(* YggdrasilAuthSession *)

YggdrasilError(message) == <<"AuthError", "yggdrasil", message>>

\* what the auth server answers; a 204 has no body
YggResponses ==
    {Fail, NotJsonBody(204), NotJsonBody(503),
     JsonBody(403, [errorMessage |-> "m1"]),
     JsonBody(200, [accessToken |-> "at6"]),
     JsonBody(200, EmptyDict)}
    \cup {JsonBody(200, [accessToken |-> "at6", selectedProfile_name |-> n]) :
            n \in {"u1", "u6"}}

\* YggdrasilAuthSession.request(req, payload, error): (code, res) or the exception;
\* raise_error is the parameter 'error'
YggRequest(resp, raise_error) ==
    LET r == JsonRequestResult(resp, TRUE)
    IN  IF r.raised # <<>> THEN r
        ELSE IF raise_error /\ r.code # 200
        THEN IF "errorMessage" \in DOMAIN r.res
             THEN [r EXCEPT !.raised = <<YggdrasilError(r.res["errorMessage"])>>]
             ELSE [r EXCEPT !.raised = <<KeyError>>]
        ELSE r

\* YggdrasilAuthSession.validate for a response
YggValidate(sess, resp) ==
    LET r == YggRequest(resp, FALSE)
    IN  IF r.raised # <<>> THEN [sess |-> sess, raised |-> r.raised, ret |-> NoRet]
        ELSE [sess |-> sess, raised |-> <<>>, ret |-> RetBool(r.code = 204)]

\* YggdrasilAuthSession.refresh for a response: the two assignments, each of which
\* may raise KeyError
YggRefresh(sess, resp) ==
    LET r == YggRequest(resp, TRUE)
    IN  IF r.raised # <<>> THEN [sess |-> sess, raised |-> r.raised, ret |-> NoRet]
        ELSE IF "accessToken" \notin DOMAIN r.res
        THEN [sess |-> sess, raised |-> <<KeyError>>, ret |-> NoRet]
        ELSE LET sess1 == [sess EXCEPT !["access_token"] = r.res["accessToken"]]
             IN  IF "selectedProfile_name" \notin DOMAIN r.res
                 THEN [sess |-> sess1, raised |-> <<KeyError>>, ret |-> NoRet]
                 ELSE [sess |-> [sess1 EXCEPT !["username"] = r.res["selectedProfile_name"]],
                       raised |-> <<>>, ret |-> NoRet]

\* YggdrasilAuthSession.validate()
ygg_validate ==
    /\ s_pc = "idle"
    /\ s_sess["type"] = "yggdrasil"
    /\ \E resp \in YggResponses :
        LET r == YggValidate(s_sess, resp)
        IN  /\ s_sess' = r.sess
            /\ s_raised' = r.raised
            /\ s_ret' = r.ret
            /\ s_in' = resp
            /\ s_log' = Exchange(<<>>, "validate", resp)
    /\ s_pre' = s_sess
    /\ s_last' = "ygg_validate"
    /\ UNCHANGED <<s_pc, s_loc, s_res>>
    /\ UNCHANGED nonSessVars

\* YggdrasilAuthSession.refresh()
ygg_refresh ==
    /\ s_pc = "idle"
    /\ s_sess["type"] = "yggdrasil"
    /\ \E resp \in YggResponses :
        LET r == YggRefresh(s_sess, resp)
        IN  /\ s_sess' = r.sess
            /\ s_raised' = r.raised
            /\ s_ret' = r.ret
            /\ s_in' = resp
            /\ s_log' = Exchange(<<>>, "refresh", resp)
    /\ s_pre' = s_sess
    /\ s_last' = "ygg_refresh"
    /\ UNCHANGED <<s_pc, s_loc, s_res>>
    /\ UNCHANGED nonSessVars

-----------------------------------------------------------------------------
(* Util.json_request step by step, and DownloadList.append *)

\* A url is the text of its scheme and its netloc. url_parse.urlparse lowers the
\* scheme and leaves the netloc as it is.
Url(scheme, netloc) == [scheme |-> scheme, netloc |-> netloc]
Lower(text) ==
    IF text = "HTTP" THEN "http" ELSE IF text = "HTTPS" THEN "https"
    ELSE IF text = "FTP" THEN "ftp" ELSE text
urlparse(url) == [scheme |-> Lower(url.scheme), netloc |-> url.netloc]

\* a slip that takes every url with a scheme
ValidSchemeAny(scheme) == scheme # ""

\* 'scheme in ("http", "https")', the keys of the dict of connection types
ValidScheme(scheme) == scheme \in {"http", "https"}

InvalidScheme(scheme) == <<"JsonRequestError", "invalid_url_scheme", scheme>>
ValueError == <<"ValueError">>

\* the body cannot be read to its end
ReadFail(code) == [kind |-> "readfail", code |-> code, body |-> EmptyDict]

Schemes == {"http", "https", "HTTPS", "ftp", ""}
RequestUrls == {Url(scheme, "h1") : scheme \in Schemes}
HttpStatuses == {200, 404, 500}
HttpResponses ==
    {Fail} \cup {ReadFail(c) : c \in {200}}
    \cup {NotJsonBody(c) : c \in HttpStatuses}
    \cup {JsonBody(c, [k |-> "v"]) : c \in HttpStatuses}

NoOutcome == [raised |-> <<>>, code |-> 0, res |-> EmptyDict]
Returned(code, res) == [raised |-> <<>>, code |-> code, res |-> res]
Raised(exc) == [raised |-> <<exc>>, code |-> 0, res |-> EmptyDict]

\* an entry: DownloadEntry.url and DownloadEntry.size, which may be None
Entry(url, sized, size) == [url |-> url, sized |-> sized, size |-> size]
EntryUrls ==
    {Url("http", "h1"), Url("https", "h1"), Url("HTTPS", "h1"), Url("https", "h2"),
     Url("ftp", "h1"), Url("", "h1")}
Entries2 ==
    {Entry(u, FALSE, 0) : u \in EntryUrls}
    \cup {Entry(u, TRUE, 2) : u \in {Url("http", "h1"), Url("https", "h1")}}

\* no json_request call
HttpAtRest ==
    /\ h_url = Url("", "")
    /\ h_ignore = FALSE
    /\ h_conn = "none"
    /\ h_requests = 0
    /\ h_resp = NoResponse
    /\ h_pending = NoOutcome
    /\ h_out = NoOutcome

\* DownloadList.__init__, and no json_request yet
InitHttpVars ==
    /\ HttpAtRest
    /\ h_pc = "idle"
    /\ dl_entries = EmptyDict
    /\ dl_count = 0
    /\ dl_size = 0
    /\ dl_in = <<>>
    /\ dl_raised = <<>>

\* no DownloadList and no json_request
IdleHttpVars ==
    /\ HttpAtRest
    /\ h_pc = "off"
    /\ dl_entries = EmptyDict
    /\ dl_count = 0
    /\ dl_size = 0
    /\ dl_in = <<>>
    /\ dl_raised = <<>>

\* json_request(url, method, ignore_error=...): the scheme test and the connection
\* object. h_* describe the latest call of json_request since the latest append.
json_request_begin ==
    /\ h_pc \in {"idle", "done"}
    /\ \E url \in RequestUrls, ignore_error \in BOOLEAN :
        LET url_parsed == urlparse(url)
        IN  /\ h_url' = url
            /\ h_ignore' = ignore_error
            /\ IF ~ValidScheme(url_parsed.scheme)
               THEN /\ h_out' = Raised(InvalidScheme(url_parsed.scheme))
                    /\ h_conn' = "none"
                    /\ h_pc' = "done"
               ELSE /\ h_out' = NoOutcome
                    /\ h_conn' = "open"
                    /\ h_pc' = "request"
    /\ h_requests' = 0
    /\ h_resp' = NoResponse
    /\ h_pending' = NoOutcome
    /\ UNCHANGED dlVars
    /\ UNCHANGED nonHttpVars

\* json_request: conn.request and conn.getresponse, either of which may raise OSError
json_request_send ==
    /\ h_pc = "request"
    /\ h_requests' = h_requests + 1
    /\ \E resp \in HttpResponses :
        /\ h_resp' = resp
        /\ IF resp.kind = "fail"
           THEN /\ h_pending' = Raised(SocketError)
                /\ h_pc' = "finally"
           ELSE /\ h_pc' = "load"
                /\ UNCHANGED h_pending
    /\ UNCHANGED <<h_url, h_ignore, h_conn, h_out, dlVars>>
    /\ UNCHANGED nonHttpVars

\* json_request: 'return res.status, json.load(res)' and the two except clauses
json_request_load ==
    /\ h_pc = "load"
    /\ h_pending' =
        IF h_resp.kind = "json" THEN Returned(h_resp.code, h_resp.body)
        ELSE IF h_resp.kind = "notjson"
        THEN IF h_ignore THEN Returned(h_resp.code, EmptyDict) ELSE Raised(NotJson)
        ELSE Raised(SocketError)
    /\ h_pc' = "finally"
    /\ UNCHANGED <<h_url, h_ignore, h_conn, h_requests, h_resp, h_out, dlVars>>
    /\ UNCHANGED nonHttpVars

\* a slip that closes the connection after a return only
FinallyConnOnReturn(pending) == IF pending.raised = <<>> THEN "closed" ELSE "open"

\* 'finally: conn.close()'
FinallyConn(pending) == "closed"

\* json_request: the finally clause, then the caller gets the value or the exception
json_request_finally ==
    /\ h_pc = "finally"
    /\ h_conn' = FinallyConn(h_pending)
    /\ h_out' = h_pending
    /\ h_pc' = "done"
    /\ UNCHANGED <<h_url, h_ignore, h_requests, h_resp, h_pending, dlVars>>
    /\ UNCHANGED nonHttpVars

\* 'host_key = "{}{}".format(int(url_parsed.scheme == "https"), url_parsed.netloc)'
\* a slip that leaves the scheme out of the key
HostKeyNetloc(url_parsed) == <<0, url_parsed.netloc>>

\* '"{}{}".format(int(url_parsed.scheme == "https"), url_parsed.netloc)'
HostKey(url_parsed) ==
    <<IF url_parsed.scheme = "https" THEN 1 ELSE 0, url_parsed.netloc>>

\* DownloadList.append(entry)
DlAppend(entry) ==
    /\ h_pc \in {"idle", "done"}
    /\ dl_count < MaxEntries
    /\ LET url_parsed == urlparse(entry.url)
           host_key == HostKey(url_parsed)
           entries == IF host_key \in DOMAIN dl_entries THEN dl_entries[host_key] ELSE <<>>
       IN  /\ dl_in' = <<entry>>
           /\ IF ~ValidScheme(url_parsed.scheme)
              THEN /\ dl_raised' = <<ValueError>>
                   /\ UNCHANGED <<dl_entries, dl_count, dl_size>>
              ELSE /\ dl_raised' = <<>>
                   /\ dl_entries' = (host_key :> Append(entries, entry)) @@ dl_entries
                   /\ dl_count' = dl_count + 1
                   /\ dl_size' = IF entry.sized THEN dl_size + entry.size ELSE dl_size
    /\ h_url' = Url("", "")
    /\ h_ignore' = FALSE
    /\ h_pc' = "idle"
    /\ h_conn' = "none"
    /\ h_requests' = 0
    /\ h_resp' = NoResponse
    /\ h_pending' = NoOutcome
    /\ h_out' = NoOutcome
    /\ UNCHANGED nonHttpVars

\* an append of any entry
dl_append == \E entry \in Entries2 : DlAppend(entry)

-----------------------------------------------------------------------------
(* forge.py: FabricRepository.fetch_version, the probe of the installer *)

\* An exception of forge.py: its type and what it carries.
ForgeExc(type, text) ==
    [type |-> type, text |-> text, task |-> "", code |-> 0, path |-> "", got |-> "",
     expected |-> ""]
\* HttpError, as request_install_jar raises it for an answer that is no success
HttpError(status) == [ForgeExc("HttpError", "") EXCEPT !.code = status]
VersionNotFoundError == ForgeExc("VersionNotFoundError", "")
INSTALL_PROFILE_NOT_FOUND == ForgeExc("ForgeInstallError", "install_profile_not_found")
VERSION_METADATA_NOT_FOUND == ForgeExc("ForgeInstallError", "version_meta_not_found")

\* 'self.forge_version.split("-", 1)[0]' of a version given by its parts
GameVersionOf(forge_version) == forge_version[1]

\* the table of suffixes of fetch_version
SuffixTable(game_version) ==
    CASE game_version = "1.11" -> <<"-1.11.x">>
      [] game_version = "1.10.2" -> <<"-1.10.0">>
      [] game_version = "1.10" -> <<"-1.10.0">>
      [] game_version = "1.9.4" -> <<"-1.9.4">>
      [] game_version = "1.9" -> <<"-1.9.0", "-1.9">>
      [] game_version = "1.8.9" -> <<"-1.8.9">>
      [] game_version = "1.8.8" -> <<"-1.8.8">>
      [] game_version = "1.8" -> <<"-1.8">>
      [] game_version = "1.7.10" -> <<"-1.7.10", "-1710ls", "-new">>
      [] game_version = "1.7.2" -> <<"-mc172">>
      [] OTHER -> <<>>

\* 'suffixes = [""] + {...}.get(game_version, [])'
SuffixesOf(game_version) == <<"">> \o SuffixTable(game_version)

\* f"{self.forge_version}{suffix}"
Requested(forge_version, suffix) == [version |-> forge_version, suffix |-> suffix]

ForgeVersions ==
    {<<"1.7.10", "10.13.4.1614">>, <<"1.9", "12.16.1.1887">>, <<"1.12.2", "14.23.5.2860">>,
     <<"1.11">>}
\* the statuses the maven server answers with
ProbeStatuses == {200, 404, 403, 500}

\* a slip that goes on to the next suffix after every error
ProbeGoesOnAny(status) == status >= 400

\* 'if error.res.status != 404: raise', else the loop goes on
ProbeGoesOn(status) == status = 404

\* The text of an argument or of a path of a processor, by its form: plain text,
\* "{name}", "'text'" or "[library]".
Lit(s) == [form |-> "lit", s |-> s]
Var(s) == [form |-> "var", s |-> s]
Quoted(s) == [form |-> "quoted", s |-> s]
LibRef(s) == [form |-> "lib", s |-> s]

\* str(context.libraries_dir / spec.file_path())
LibPath(s) == IF s = "net:out:1" THEN "libraries/net/out/1/out-1.jar" ELSE "libraries/other.jar"

\* info.variables of the profiles, with the two that execute adds
ProfileVariables ==
    [n \in {"OUT", "OUT_SHA", "OUT_LIB", "SIDE", "MINECRAFT_JAR"} |->
        CASE n = "OUT" -> Lit("/tmp/x")
          [] n = "OUT_SHA" -> Quoted("sha_a")
          [] n = "OUT_LIB" -> LibRef("net:out:1")
          [] n = "SIDE" -> Lit("client")
          [] OTHER -> Lit("versions/v/v.jar")]

\* a slip that leaves the text as it is written in the profile
ReplaceInstallArgsRaw(txt, variables) == <<txt.s>>

\* replace_install_args(txt): <<>> when format_map raises KeyError, else <<the text>>
ReplaceInstallArgs(txt, variables) ==
    IF txt.form = "var" /\ txt.s \notin DOMAIN variables THEN <<>>
    ELSE LET formatted == IF txt.form = "var" THEN variables[txt.s] ELSE txt
         IN  IF formatted.form = "lib" THEN <<LibPath(formatted.s)>>
             ELSE <<formatted.s>>

\* a processor of install_profile["processors"]
Processor(jar_name, sides, main, args, outputs) ==
    [jar_name |-> jar_name, sides |-> sides, main |-> main, args |-> args, sha1 |-> outputs,
     sides_type |-> "list", jar_type |-> "str"]
\* a processor whose "sides" or whose "jar" is of another JSON type
OfTypes(processor, sides_type, jar_type) ==
    [processor EXCEPT !.sides_type = sides_type, !.jar_type = jar_type]

ProfileProcessors ==
    {Processor(<<"net.minecraftforge", "jarsplitter", "1.1">>, <<"client">>, TRUE,
               <<"--input", "x">>, <<>>),
     Processor(<<"de.oceanlabs.mcp", "mcinjector", "3.8">>, <<>>, TRUE,
               <<"--task", "MCP_DATA">>, << <<Var("OUT"), Var("OUT_SHA")>> >>),
     Processor(<<"net.minecraftforge", "binarypatcher", "1.0">>, <<>>, TRUE,
               <<>>, << <<Lit("/tmp/x"), Lit("sha_a")>>, <<Var("OUT_LIB"), Var("OUT_SHA")>> >>),
     Processor(<<"net.minecraftforge", "ForgeAutoRenamingTool", "0.1">>, <<>>, TRUE,
               <<"--task">>, << <<Lit("/tmp/x"), Var("NOPE")>> >>),
     Processor(<<"net.md-5", "SpecialSource", "1.8">>, <<"client", "server">>, FALSE,
               <<>>, <<>>),
     Processor(<<"net.minecraftforge", "installertools", "1.1">>, <<"server">>, TRUE,
               <<"--task", "SERVER">>, <<>>),
     OfTypes(Processor(<<"net.minecraftforge", "installertools", "1.2">>, <<>>, TRUE,
                       <<"--task", "DOWNLOAD_MOJMAPS">>, <<>>), "str", "str"),
     OfTypes(Processor(<<"", "", "">>, <<"client">>, TRUE, <<>>, <<>>), "list", "null"),
     OfTypes(Processor(<<"", "", "">>, <<"server">>, TRUE, <<>>, <<>>), "list", "null")}

\* the lists of processors of a profile
RECURSIVE ProcessorLists(_)
ProcessorLists(n) ==
    IF n = 0 THEN {<<>>}
    ELSE LET shorter == ProcessorLists(n - 1)
         IN  shorter \cup {Append(l, p) : l \in {s \in shorter : Len(s) = n - 1},
                                            p \in ProfileProcessors}

\* a slip that skips every processor that names the server
SkipsProcessorOfServer(processor) == \E i \in DOMAIN processor.sides : processor.sides[i] = "server"

\* 'if len(processor_sides) and "client" not in processor_sides: continue'
SkipsProcessor(processor) ==
    Len(processor.sides) # 0 /\ \A i \in DOMAIN processor.sides : processor.sides[i] # "client"

\* fetch_version: the processors kept by the loop
RECURSIVE ClientProcessors(_)
ClientProcessors(processors) ==
    IF processors = <<>> THEN <<>>
    ELSE LET processor == Head(processors)
             others == ClientProcessors(Tail(processors))
         IN  IF SkipsProcessor(processor) THEN others ELSE <<processor>> \o others

SidesError(i) == [ForgeExc("ValueError", "sides must be an array") EXCEPT !.code = i]
JarError(i) == [ForgeExc("ValueError", "jar must be a string") EXCEPT !.code = i]

\* fetch_version: the exception that ends the loop over the processors from the
\* i-th one on (enumerate counts from 0), <<>> when the loop ends by itself
RECURSIVE ParseError(_, _)
ParseError(processors, i) ==
    IF i >= Len(processors) THEN <<>>
    ELSE LET processor == processors[i + 1]
         IN  IF processor.sides_type # "list" THEN <<SidesError(i)>>
             ELSE IF SkipsProcessor(processor) THEN ParseError(processors, i + 1)
             ELSE IF processor.jar_type # "str" THEN <<JarError(i)>>
             ELSE ParseError(processors, i + 1)

\* the documents of an archive: install_profile.json (there or not, with "json" or
\* not, its processors, its versionInfo) and the version.json it names
Metadata(id, libraries) == [id |-> id, libraries |-> libraries]
Profile(present, json, processors, versionInfo) ==
    [present |-> present, json |-> json, processors |-> processors, versionInfo |-> versionInfo,
     version_json |-> Metadata(<<"1.12.2-forge-14.23.5.2860">>, << {"name", "downloads"} >>)]
\* the libraries of a versionInfo, each by the keys it has
LegacyLibraries ==
    {<<>>,
     << {"name", "url"} >>,
     << {"name", "url", "serverreq", "clientreq"}, {"name", "checksums"} >>,
     << {"name", "clientreq", "checksums", "serverreq"}, {"name"} >>}
Profiles ==
    {Profile(FALSE, FALSE, <<>>, <<>>), Profile(TRUE, FALSE, <<>>, <<>>)}
    \cup {Profile(TRUE, TRUE, processors, <<>>) : processors \in ProcessorLists(MaxProcessors)}
    \cup {Profile(TRUE, FALSE, <<>>, <<Metadata(<<"1.7.10-Forge10.13.4.1614">>, libraries)>>) :
            libraries \in LegacyLibraries}

\* a slip that leaves the checksums
StripLibrariesReq(libraries) ==
    [j \in 1..Len(libraries) |-> libraries[j] \ {"serverreq", "clientreq"}]

\* 'del version_lib[...]' for the three keys, on every library
StripLibraries(libraries) ==
    [j \in 1..Len(libraries) |-> libraries[j] \ {"serverreq", "clientreq", "checksums"}]

\* version.id of the version fetch_version is called for
VersionId(forge_version) == <<"forge">> \o forge_version

\* the task name of a processor, as execute finds it
TaskOf(processor) ==
    IF Len(processor.args) >= 2 /\ processor.args[1] = "--task" THEN processor.args[2]
    ELSE IF processor.jar_name[1] = "net.minecraftforge" /\ processor.jar_name[2] = "jarsplitter"
    THEN "JAR_SPLITTER"
    ELSE IF processor.jar_name[1] = "net.minecraftforge" /\ processor.jar_name[2] = "ForgeAutoRenamingTool"
    THEN "AUTO_RENAMING"
    ELSE IF processor.jar_name[1] = "net.minecraftforge" /\ processor.jar_name[2] = "binarypatcher"
    THEN "BINARY_PATCHER"
    ELSE "UNKNOWN"

ForgePostProcessingEvent(task) == [event |-> "ForgePostProcessingEvent", task |-> task]
ForgePostProcessedEvent == [event |-> "ForgePostProcessedEvent", task |-> ""]

MainClassError(jar_name) ==
    [ForgeExc("ValueError", "cannot find main class") EXCEPT !.path = jar_name[2]]
\* 'raise ValueError("ERROR")'
ProcessorError(task, returncode) == ForgeExc("ValueError", "ERROR")
Sha1Error(lib_name, actual_sha1, expected_sha1) ==
    [ForgeExc("ValueError", "invalid sha1") EXCEPT
        !.path = lib_name, !.got = actual_sha1, !.expected = expected_sha1]
FormatKeyError == ForgeExc("KeyError", "")
FileNotFoundError(lib_name) == [ForgeExc("FileNotFoundError", "") EXCEPT !.path = lib_name]

\* the files a processor may write, and what a run leaves of them: the SHA1 of each
\* file, or "absent"
OutputPaths == {"/tmp/x", "libraries/net/out/1/out-1.jar"}
RunOutputs ==
    {[p \in OutputPaths |-> IF p = "/tmp/x" THEN x ELSE y] :
        x \in {"absent", "sha_a", "sha_b"}, y \in {"sha_a", "sha_b"}}
ExitCodes == {0, 1, 3}

\* the loop over processor.sha1.items(): <<>> when every check passes, else <<the
\* exception of the first entry that fails>>
RECURSIVE CheckSha1(_, _, _)
CheckSha1(entries, variables, disk) ==
    IF entries = <<>> THEN <<>>
    ELSE LET lib_name == ReplaceInstallArgs(Head(entries)[1], variables)
             expected_sha1 == ReplaceInstallArgs(Head(entries)[2], variables)
         IN  IF lib_name = <<>> \/ expected_sha1 = <<>> THEN <<FormatKeyError>>
             ELSE IF lib_name[1] \notin DOMAIN disk \/ disk[lib_name[1]] = "absent"
             THEN <<FileNotFoundError(lib_name[1])>>
             ELSE IF disk[lib_name[1]] # expected_sha1[1]
             THEN <<Sha1Error(lib_name[1], disk[lib_name[1]], expected_sha1[1])>>
             ELSE CheckSha1(Tail(entries), variables, disk)

\* a state of no installer
InitForgeVars ==
    /\ f_forge_version = <<>>
    /\ f_suffixes = <<>>
    /\ f_i = 0
    /\ f_requests = <<>>
    /\ f_jar = <<>>
    /\ f_profile = <<>>
    /\ f_meta = <<>>
    /\ f_steps = <<>>
    /\ f_written = <<>>
    /\ f_info = <<>>
    /\ f_tmp = "none"
    /\ f_k = 0
    /\ f_runs = <<>>
    /\ f_events = <<>>
    /\ f_pc = "idle"
    /\ f_raised = <<>>

IdleForgeVars ==
    /\ f_forge_version = <<>>
    /\ f_suffixes = <<>>
    /\ f_i = 0
    /\ f_requests = <<>>
    /\ f_jar = <<>>
    /\ f_profile = <<>>
    /\ f_meta = <<>>
    /\ f_steps = <<>>
    /\ f_written = <<>>
    /\ f_info = <<>>
    /\ f_tmp = "none"
    /\ f_k = 0
    /\ f_runs = <<>>
    /\ f_events = <<>>
    /\ f_pc = "off"
    /\ f_raised = <<>>

\* an exception leaves the call
ForgeRaise(exc) ==
    /\ f_raised' = <<exc>>
    /\ f_pc' = "failed"

\* fetch_version up to the loop
fetch_version_begin ==
    /\ f_pc = "idle"
    /\ \E forge_version \in ForgeVersions :
        /\ f_forge_version' = forge_version
        /\ f_suffixes' = SuffixesOf(GameVersionOf(forge_version))
    /\ f_i' = 1
    /\ f_pc' = "probe"
    /\ UNCHANGED <<f_requests, f_jar, f_info, f_tmp, f_k, f_runs, f_events, f_raised>>
    /\ UNCHANGED fetchedVars
    /\ UNCHANGED nonForgeVars

\* one iteration of 'for suffix in suffixes', with what follows the loop when it
\* is the last one
request_install_jar ==
    /\ f_pc = "probe"
    /\ \E status \in ProbeStatuses :
        LET requested == Requested(f_forge_version, f_suffixes[f_i])
        IN  /\ f_requests' = Append(f_requests, [requested |-> requested, status |-> status])
            /\ IF status = 200
               THEN /\ f_jar' = <<requested>>
                    /\ f_pc' = "opened"
                    /\ UNCHANGED <<f_i, f_raised>>
               ELSE IF ~ProbeGoesOn(status)
               THEN /\ ForgeRaise(HttpError(status))
                    /\ UNCHANGED <<f_i, f_jar>>
               ELSE IF f_i < Len(f_suffixes)
               THEN /\ f_i' = f_i + 1
                    /\ UNCHANGED <<f_jar, f_pc, f_raised>>
               ELSE /\ ForgeRaise(VersionNotFoundError)
                    /\ UNCHANGED <<f_i, f_jar>>
    /\ UNCHANGED <<f_forge_version, f_suffixes, f_info, f_tmp, f_k, f_runs, f_events>>
    /\ UNCHANGED fetchedVars
    /\ UNCHANGED nonForgeVars

\* fetch_version after the loop: the 'with install_jar' block, then the metadata
\* file. An exception leaves the block, which closes the archive.
FetchProfile(profile, forge_version) ==
    LET failed(exc, meta, steps) ==
            [raised |-> <<exc>>, meta |-> meta, info |-> <<>>, steps |-> steps \o <<"close">>,
             written |-> <<>>]
        fetched(meta, info, steps) ==
            LET stored == Metadata(VersionId(forge_version), meta.libraries)
            IN  [raised |-> <<>>, meta |-> <<stored>>, info |-> info,
                 steps |-> steps \o <<"close", "write">>, written |-> <<stored>>]
    IN  IF ~profile.present THEN failed(INSTALL_PROFILE_NOT_FOUND, <<>>, <<>>)
        ELSE IF profile.json
        THEN IF ParseError(profile.processors, 0) # <<>>
             THEN failed(ParseError(profile.processors, 0)[1], <<profile.version_json>>, <<>>)
             ELSE fetched(profile.version_json,
                          <<[variables |-> [n \in {"OUT", "OUT_SHA", "OUT_LIB"} |-> ProfileVariables[n]],
                             processors |-> ClientProcessors(profile.processors)]>>,
                          <<"insert">>)
        ELSE IF profile.versionInfo = <<>> THEN failed(VERSION_METADATA_NOT_FOUND, <<>>, <<>>)
        ELSE fetched(Metadata(profile.versionInfo[1].id, StripLibraries(profile.versionInfo[1].libraries)),
                     <<>>, <<"extract">>)

fetch_version_profile ==
    /\ f_pc = "opened"
    /\ \E profile \in Profiles :
        LET out == FetchProfile(profile, f_forge_version)
        IN  /\ f_profile' = <<profile>>
            /\ f_meta' = out.meta
            /\ f_steps' = out.steps
            /\ f_written' = out.written
            /\ f_info' = out.info
            /\ f_tmp' = IF out.info # <<>> THEN "present" ELSE f_tmp
            /\ f_raised' = out.raised
            /\ f_pc' = IF out.raised # <<>> THEN "failed" ELSE "fetched"
    /\ UNCHANGED <<f_forge_version, f_suffixes, f_i, f_requests, f_jar, f_k, f_runs, f_events>>
    /\ UNCHANGED nonForgeVars

-----------------------------------------------------------------------------
(* forge.py: ForgeFinalizeTask.execute *)

\* execute up to the loop: 'if info is None: return', and the two variables
finalize_begin ==
    /\ f_pc = "fetched"
    /\ IF f_info = <<>>
       THEN /\ f_pc' = "done"
            /\ UNCHANGED <<f_info, f_k>>
       ELSE /\ f_info' = <<[f_info[1] EXCEPT !.variables =
                                [n \in DOMAIN ProfileVariables |-> ProfileVariables[n]]]>>
            /\ f_k' = 1
            /\ f_pc' = "processor"
    /\ UNCHANGED <<f_forge_version, f_suffixes, f_i, f_requests, f_jar, f_tmp, f_runs,
                   f_events, f_raised>>
    /\ UNCHANGED fetchedVars
    /\ UNCHANGED nonForgeVars

\* one iteration of 'for processor in info.processors' up to the event
processor_start ==
    /\ f_pc = "processor"
    /\ f_k <= Len(f_info[1].processors)
    /\ LET processor == f_info[1].processors[f_k]
       IN  IF ~processor.main
           THEN /\ ForgeRaise(MainClassError(processor.jar_name))
                /\ UNCHANGED <<f_tmp, f_events>>
           ELSE /\ f_events' = Append(f_events, ForgePostProcessingEvent(TaskOf(processor)))
                /\ f_pc' = "run"
                /\ UNCHANGED <<f_tmp, f_raised>>
    /\ UNCHANGED <<f_forge_version, f_suffixes, f_i, f_requests, f_jar, f_info, f_k, f_runs>>
    /\ UNCHANGED fetchedVars
    /\ UNCHANGED nonForgeVars

\* the rest of the iteration: subprocess.run, the return code, the sha1 checks
processor_run ==
    /\ f_pc = "run"
    /\ \E returncode \in ExitCodes, disk \in RunOutputs :
        LET processor == f_info[1].processors[f_k]
            checked == CheckSha1(processor.sha1, f_info[1].variables, disk)
        IN  /\ returncode # 0 => disk = CHOOSE d \in RunOutputs : TRUE
            /\ f_runs' = Append(f_runs, [k |-> f_k, returncode |-> returncode, disk |-> disk])
            /\ IF returncode # 0
               THEN /\ ForgeRaise(ProcessorError(TaskOf(processor), returncode))
                    /\ UNCHANGED <<f_tmp, f_k>>
               ELSE IF checked # <<>>
               THEN /\ ForgeRaise(checked[1])
                    /\ UNCHANGED <<f_tmp, f_k>>
               ELSE /\ f_k' = f_k + 1
                    /\ f_pc' = "processor"
                    /\ UNCHANGED <<f_tmp, f_raised>>
    /\ UNCHANGED <<f_forge_version, f_suffixes, f_i, f_requests, f_jar, f_info, f_events>>
    /\ UNCHANGED fetchedVars
    /\ UNCHANGED nonForgeVars

\* after the loop: shutil.rmtree(info.tmp_dir) and the last event
finalize_end ==
    /\ f_pc = "processor"
    /\ f_k > Len(f_info[1].processors)
    /\ f_tmp' = "removed"
    /\ f_events' = Append(f_events, ForgePostProcessedEvent)
    /\ f_pc' = "done"
    /\ UNCHANGED <<f_forge_version, f_suffixes, f_i, f_requests, f_jar, f_info, f_k, f_runs,
                   f_raised>>
    /\ UNCHANGED fetchedVars
    /\ UNCHANGED nonForgeVars

-----------------------------------------------------------------------------
(* DownloadList.add_callback, and the download of a list (specification 4.2, 5) *)

\* a callback: its name and whether it raises when it is called
Callback(name, raises) == [name |-> name, raises |-> raises]
Callbacks == {Callback("c1", FALSE), Callback("c2", FALSE), Callback("c3", TRUE)}

\* the entries the planners of the model hand to append
PlanEntries ==
    {Entry(Url("https", "h1"), FALSE, 0), Entry(Url("http", "h1"), TRUE, 2),
     Entry(Url("https", "h2"), FALSE, 0)}

\* how many times an entry is tried before the phase gives up ("default 3")
MaxTries == 3

DownloadError(host_key, place) ==
    [type |-> "DownloadError", host_key |-> <<host_key>>, place |-> place, callback |-> ""]
CallbackError(callback) ==
    [type |-> "CallbackError", host_key |-> <<>>, place |-> 0, callback |-> callback.name]

\* a slip that puts the new callback first
AddCallbackFirst(callbacks, callback) == <<callback>> \o callbacks

\* 'self.callbacks.append(callback)'
AddCallback(callbacks, callback) == Append(callbacks, callback)

\* a DownloadList with no callback, before any download
InitExecVars ==
    /\ dl_callbacks = <<>>
    /\ dl_registered = <<>>
    /\ x_pc = "planning"
    /\ x_conns = EmptyDict
    /\ x_next = EmptyDict
    /\ x_inflight = {}
    /\ x_tries = EmptyDict
    /\ x_done = <<>>
    /\ x_ran = <<>>
    /\ x_raised = <<>>

IdleExecVars ==
    /\ dl_callbacks = <<>>
    /\ dl_registered = <<>>
    /\ x_pc = "off"
    /\ x_conns = EmptyDict
    /\ x_next = EmptyDict
    /\ x_inflight = {}
    /\ x_tries = EmptyDict
    /\ x_done = <<>>
    /\ x_ran = <<>>
    /\ x_raised = <<>>

\* a planner appends an entry
plan_append ==
    /\ x_pc = "planning"
    /\ \E entry \in PlanEntries : DlAppend(entry)

\* DownloadList.add_callback(callback)
add_callback ==
    /\ x_pc = "planning"
    /\ Len(dl_callbacks) < MaxCallbacks
    /\ \E callback \in Callbacks :
        /\ dl_callbacks' = AddCallback(dl_callbacks, callback)
        /\ dl_registered' = Append(dl_registered, callback)
    /\ UNCHANGED <<x_pc, x_conns, x_next, x_inflight, x_tries, x_done, x_ran, x_raised>>
    /\ UNCHANGED nonExecVars

\* the entries of a list, each as <<host key, place in its list>>
PlacesOf(entries) == UNION {{<<k, i>> : i \in 1..Len(entries[k])} : k \in DOMAIN entries}

\* a slip that lets a worker start an entry while another one of its host is in flight
WorkerFreeAlways(inflight, host_key) == TRUE

\* the worker of a host key has no entry in flight: entries of one host key are
\* downloaded one after the other
WorkerFree(inflight, host_key) == \A e \in inflight : e[1] # host_key

\* the download phase begins: one worker per host key
download_begin ==
    /\ x_pc = "planning"
    /\ x_pc' = "running"
    /\ x_conns' = [k \in DOMAIN dl_entries |-> 0]
    /\ x_next' = [k \in DOMAIN dl_entries |-> 1]
    /\ x_tries' = [k \in DOMAIN dl_entries |-> 0]
    /\ UNCHANGED <<dl_callbacks, dl_registered, x_inflight, x_done, x_ran, x_raised>>
    /\ UNCHANGED nonExecVars

\* the worker of a host key opens its connection
worker_connect ==
    /\ x_pc = "running"
    /\ \E k \in DOMAIN dl_entries :
        /\ x_conns[k] = 0
        /\ x_next[k] <= Len(dl_entries[k])
        /\ x_conns' = [x_conns EXCEPT ![k] = 1]
    /\ UNCHANGED <<dl_callbacks, dl_registered, x_pc, x_next, x_inflight, x_tries, x_done,
                   x_ran, x_raised>>
    /\ UNCHANGED nonExecVars

\* the worker of a host key starts the next entry of its list
worker_begin ==
    /\ x_pc = "running"
    /\ \E k \in DOMAIN dl_entries :
        /\ x_conns[k] >= 1
        /\ WorkerFree(x_inflight, k)
        /\ x_next[k] <= Len(dl_entries[k])
        /\ x_inflight' = x_inflight \cup {<<k, x_next[k]>>}
        /\ x_next' = [x_next EXCEPT ![k] = @ + 1]
        /\ x_tries' = [x_tries EXCEPT ![k] = 0]
    /\ UNCHANGED <<dl_callbacks, dl_registered, x_pc, x_conns, x_done, x_ran, x_raised>>
    /\ UNCHANGED nonExecVars

\* the body of an entry in flight has been read: it verifies, or it fails
\* verification and is tried again on a reopened connection, or the phase ends with
\* DownloadError (a third failure, or a 4xx status)
worker_finish ==
    /\ x_pc = "running"
    /\ \E e \in x_inflight :
        \/ /\ x_inflight' = x_inflight \ {e}
           /\ x_done' = Append(x_done, e)
           /\ UNCHANGED <<x_pc, x_tries, x_raised>>
        \/ /\ x_tries[e[1]] + 1 < MaxTries
           /\ x_tries' = [x_tries EXCEPT ![e[1]] = @ + 1]
           /\ UNCHANGED <<x_pc, x_inflight, x_done, x_raised>>
        \/ /\ x_pc' = "failed"
           /\ x_raised' = <<DownloadError(e[1], e[2])>>
           /\ UNCHANGED <<x_inflight, x_tries, x_done>>
    /\ UNCHANGED <<dl_callbacks, dl_registered, x_conns, x_next, x_ran>>
    /\ UNCHANGED nonExecVars

\* the list of a host key is drained: its worker closes the connection
worker_close ==
    /\ x_pc = "running"
    /\ \E k \in DOMAIN dl_entries :
        /\ x_conns[k] >= 1
        /\ WorkerFree(x_inflight, k)
        /\ x_next[k] > Len(dl_entries[k])
        /\ x_conns' = [x_conns EXCEPT ![k] = @ - 1]
    /\ UNCHANGED <<dl_callbacks, dl_registered, x_pc, x_next, x_inflight, x_tries, x_done,
                   x_ran, x_raised>>
    /\ UNCHANGED nonExecVars

\* every entry of every host key is downloaded and verified: the callbacks come next
callbacks_begin ==
    /\ x_pc = "running"
    /\ {x_done[i] : i \in DOMAIN x_done} = PlacesOf(dl_entries)
    /\ x_pc' = "callbacks"
    /\ UNCHANGED <<dl_callbacks, dl_registered, x_conns, x_next, x_inflight, x_tries, x_done,
                   x_ran, x_raised>>
    /\ UNCHANGED nonExecVars

\* the next callback of self.callbacks is called; one that raises ends the phase
callback_run ==
    /\ x_pc = "callbacks"
    /\ Len(x_ran) < Len(dl_callbacks)
    /\ LET callback == dl_callbacks[Len(x_ran) + 1]
       IN  /\ x_ran' = Append(x_ran, callback)
           /\ IF callback.raises
              THEN x_pc' = "failed" /\ x_raised' = <<CallbackError(callback)>>
              ELSE UNCHANGED <<x_pc, x_raised>>
    /\ UNCHANGED <<dl_callbacks, dl_registered, x_conns, x_next, x_inflight, x_tries, x_done>>
    /\ UNCHANGED nonExecVars

\* every callback was called: the phase is over
callbacks_end ==
    /\ x_pc = "callbacks"
    /\ Len(x_ran) = Len(dl_callbacks)
    /\ x_pc' = "done"
    /\ UNCHANGED <<dl_callbacks, dl_registered, x_conns, x_next, x_inflight, x_tries, x_done,
                   x_ran, x_raised>>
    /\ UNCHANGED nonExecVars

-----------------------------------------------------------------------------
(* Version.install_jar, install_assets and install_logger: the disk and the list *)

\* A path is the sequence of its parts. A file is the text of its bytes, "absent"
\* when there is no file; path.getsize counts them.
SizeOf(bytes) ==
    CASE bytes = "ab1" -> 5
      [] bytes = "ab2" -> 7
      [] bytes = "cfg" -> 4
      [] bytes = "jar" -> 9
      [] bytes = "old" -> 3
      [] OTHER -> 1
IsFile(disk, file) == file \in DOMAIN disk /\ disk[file] # "absent"

\* A SHA1 is its first two characters and the rest.
HashText(hash) == hash[1] \o hash[2]
Hashes == {<<"ab", "1">>, <<"ab", "2">>}

\* ASSET_BASE_URL.format(asset_hash_prefix, asset_hash)
AssetUrl(hash) ==
    [scheme |-> "https", netloc |-> "resources.download.minecraft.net",
     path |-> <<hash[1], HashText(hash)>>]
MetaUrl(name) == [scheme |-> "https", netloc |-> "launcher.mojang.com", path |-> <<name>>]

\* path.join(assets_objects_dir, asset_hash_prefix, asset_hash)
ObjectFile(hash) == <<"assets", "objects", hash[1], HashText(hash)>>
\* path.join(self.context.work_dir, "resources", asset_id)
ResourcesFile(asset_id) == <<"work", "resources", asset_id>>
\* path.join(assets_virtual_dir, asset_id)
VirtualDir(index_version) == <<"assets", "virtual", index_version>>
VirtualFile(virtual_dir, asset_id) == Append(virtual_dir, asset_id)
\* path.join(self.context.assets_dir, "indexes", "{}.json".format(assets_index_version))
IndexFile(index_version) == <<"assets", "indexes", index_version>>
\* path.join(log_config_dir, logging_file_info["id"])
LoggingFile(id) == <<"assets", "log_configs", id>>
\* path.join(self.version_dir, self.version)
JarFile(dir, id) == Append(dir, id)

\* An asset index: its two flags and its objects in the order of the document.
AssetObject(id, hash) == [id |-> id, hash |-> hash, size |-> SizeOf(HashText(hash))]
ObjectLists ==
    {<<>>,
     <<AssetObject("a", <<"ab", "1">>)>>,
     <<AssetObject("a", <<"ab", "1">>), AssetObject("b", <<"ab", "2">>)>>,
     <<AssetObject("a", <<"ab", "1">>), AssetObject("b", <<"ab", "1">>)>>}
Indexes ==
    {[map_to_resources |-> f[1], virtual |-> f[2], objects |-> o, text |-> "index"] :
        f \in {<<FALSE, FALSE>>, <<TRUE, FALSE>>, <<TRUE, TRUE>>}, o \in ObjectLists}

\* What the planners read of the resolved metadata: "downloads", "assets" and
\* "logging" ("none": no "logging"; "noclient": no "client" in it).
Meta(client, logging) == [client |-> client, logging |-> logging, assets |-> "idx"]
Metas == {Meta(TRUE, "client"), Meta(FALSE, "none"), Meta(TRUE, "noclient")}
\* version_meta["downloads"]["client"] and version_meta["logging"]["client"]
ClientInfo == [url |-> MetaUrl("client.jar"), size |-> 9, sha1 |-> "jar"]
ClientLogging ==
    [file |-> [id |-> "client-1.12.xml", url |-> MetaUrl("client-1.12.xml"), size |-> 4,
               sha1 |-> "cfg"],
     argument |-> <<"-Dlog4j.configurationFile=", "${path}">>]

\* a DownloadEntry; dst is <<>> when the argument is None
InstEntry(url, dst, size, sha1, name) ==
    [url |-> url, dst |-> dst, sized |-> TRUE, size |-> size, sha1 |-> sha1, name |-> name]
\* DownloadEntry.from_meta(info, dst, name=name)
FromMeta(info, dst, name) == InstEntry(info.url, dst, info.size, info.sha1, name)

\* DownloadList(): self.entries, self.callbacks, self.count, self.size
NewDownloadList == [entries |-> EmptyDict, callbacks |-> <<>>, count |-> 0, size |-> 0]

\* an append that puts the entry first in the list of its host key
ListAppendFront(dl, entry) ==
    LET url_parsed == urlparse(entry.url)
        host_key == HostKey(url_parsed)
        entries == IF host_key \in DOMAIN dl.entries THEN dl.entries[host_key] ELSE <<>>
    IN  IF ~ValidScheme(url_parsed.scheme)
        THEN [dl |-> dl, raised |-> <<ValueError>>]
        ELSE [dl |-> [dl EXCEPT !.entries = (host_key :> (<<entry>> \o entries)) @@ dl.entries,
                                !.count = @ + 1,
                                !.size = IF entry.sized THEN @ + entry.size ELSE @],
              raised |-> <<>>]

\* DownloadList.append(entry) on the list of the Version: the list after the call
\* and <<>> or <<the exception>>
ListAppend(dl, entry) ==
    LET url_parsed == urlparse(entry.url)
        host_key == HostKey(url_parsed)
        entries == IF host_key \in DOMAIN dl.entries THEN dl.entries[host_key] ELSE <<>>
    IN  IF ~ValidScheme(url_parsed.scheme)
        THEN [dl |-> dl, raised |-> <<ValueError>>]
        ELSE [dl |-> [dl EXCEPT !.entries = (host_key :> Append(entries, entry)) @@ dl.entries,
                                !.count = @ + 1,
                                !.size = IF entry.sized THEN @ + entry.size ELSE @],
              raised |-> <<>>]

\* the exceptions of the planners
MetadataNotInstalled == <<"ValueError", "You must install metadata before.">>
TypeError == <<"TypeError">>
NameError(name) == <<"NameError", name>>
JarNotFound == <<"VersionError", "jar_not_found">>
CopySourceNotFound == <<"FileNotFoundError">>

\* the files of the model
InstFiles ==
    {ObjectFile(h) : h \in Hashes}
    \cup {ResourcesFile(id) : id \in {"a", "b"}}
    \cup {VirtualFile(VirtualDir("idx"), id) : id \in {"a", "b"}}
    \cup {IndexFile("idx"), LoggingFile("client-1.12.xml"),
          JarFile(<<"versions", "v">>, "v"), <<"versions", "v", "v.jar">>}

\* the disks a Version starts on
InitDisks ==
    {[f \in InstFiles |->
        CASE f = ObjectFile(<<"ab", "1">>) -> o1
          [] f = ObjectFile(<<"ab", "2">>) -> o2
          [] f = ResourcesFile("a") -> r
          [] f = IndexFile("idx") -> x
          [] f = LoggingFile("client-1.12.xml") -> l
          [] f \in {JarFile(<<"versions", "v">>, "v"), <<"versions", "v", "v.jar">>} -> j
          [] OTHER -> "absent"] :
        o1 \in {"absent", "ab1", "short"}, o2 \in {"absent"}, r \in {"absent", "old"},
        x \in {"absent", "index"}, l \in {"absent", "cfg"}, j \in {"absent", "jar"}}

\* Version(context, version) on a disk, before install_meta
InitInstVars ==
    /\ i_meta = <<>>
    /\ i_version_dir = <<>>
    /\ i_jar_file = <<>>
    /\ i_assets = <<>>
    /\ i_dl = NewDownloadList
    /\ i_net_index \in Indexes
    /\ i_disk \in InitDisks
    /\ i_pc = "new"
    /\ i_last = "init"
    /\ i_new = <<>>
    /\ i_pre = i_disk
    /\ i_raised = <<>>
    /\ i_ret = <<>>
    /\ i_calls = 0

IdleInstVars ==
    /\ i_meta = <<>>
    /\ i_version_dir = <<>>
    /\ i_jar_file = <<>>
    /\ i_assets = <<>>
    /\ i_dl = NewDownloadList
    /\ i_net_index = <<>>
    /\ i_disk = EmptyDict
    /\ i_pc = "off"
    /\ i_last = "init"
    /\ i_new = <<>>
    /\ i_pre = EmptyDict
    /\ i_raised = <<>>
    /\ i_ret = <<>>
    /\ i_calls = 0

\* install_meta has run: what it left in self.version_meta and self.version_dir
install_meta_done ==
    /\ i_pc = "new"
    /\ \E meta \in Metas : i_meta' = <<meta>>
    /\ i_version_dir' = << <<"versions", "v">> >>
    /\ i_pc' = "planning"
    /\ i_last' = "install_meta"
    /\ i_new' = <<>>
    /\ i_pre' = i_disk
    /\ i_raised' = <<>>
    /\ i_ret' = <<>>
    /\ UNCHANGED <<i_jar_file, i_assets, i_dl, i_net_index, i_disk, i_calls>>
    /\ UNCHANGED nonInstVars

\* Version.install_jar: self.version_jar_file, self.dl, the entries appended and
\* the exception. path.isfile(None) raises TypeError.
InstallJar(meta, dir, jar_file, dl, disk) ==
    LET unchanged == [jar_file |-> jar_file, dl |-> dl, new |-> <<>>, raised |-> <<>>]
    IN  IF meta = <<>> THEN [unchanged EXCEPT !.raised = <<MetadataNotInstalled>>]
        ELSE LET version_jar_file == JarFile(dir[1], "v")
             IN  IF jar_file = <<>> THEN [unchanged EXCEPT !.raised = <<TypeError>>]
                 ELSE IF ~IsFile(disk, jar_file[1])
                 THEN IF ~meta[1].client
                      THEN [unchanged EXCEPT !.raised = <<JarNotFound>>]
                      ELSE LET entry == FromMeta(ClientInfo, jar_file, "v.jar")
                               appended == ListAppend(dl, entry)
                           IN  IF appended.raised # <<>>
                               THEN [unchanged EXCEPT !.new = <<entry>>,
                                                      !.raised = appended.raised]
                               ELSE [jar_file |-> <<version_jar_file>>, dl |-> appended.dl,
                                     new |-> <<entry>>, raised |-> <<>>]
                 ELSE [unchanged EXCEPT !.jar_file = <<version_jar_file>>]

install_jar ==
    /\ i_pc \in {"new", "planning"}
    /\ i_calls < MaxPlans
    /\ i_calls' = i_calls + 1
    /\ LET r == InstallJar(i_meta, i_version_dir, i_jar_file, i_dl, i_disk)
       IN  /\ i_jar_file' = r.jar_file
           /\ i_dl' = r.dl
           /\ i_new' = r.new
           /\ i_raised' = r.raised
    /\ i_last' = "install_jar"
    /\ i_pre' = i_disk
    /\ i_ret' = <<>>
    /\ UNCHANGED <<i_meta, i_version_dir, i_assets, i_net_index, i_disk, i_pc>>
    /\ UNCHANGED nonInstVars

\* a slip that takes every file that exists for a good one
NeedsDownloadIfMissing(disk, file, size) == ~IsFile(disk, file)

\* 'not path.isfile(file) or path.getsize(file) != size'
NeedsDownload(disk, file, size) == ~IsFile(disk, file) \/ SizeOf(disk[file]) # size

\* the loop of install_assets over assets_index["objects"].items(): the list, the
\* entries appended, and the local asset_file (<<>> while it is not bound)
RECURSIVE PlanAssets(_, _, _, _, _)
PlanAssets(objects, dl, new, asset_file, disk) ==
    IF objects = <<>> THEN [dl |-> dl, new |-> new, asset_file |-> asset_file]
    ELSE LET asset_obj == Head(objects)
             file == ObjectFile(asset_obj.hash)
             entry == InstEntry(AssetUrl(asset_obj.hash), <<file>>, asset_obj.size,
                                HashText(asset_obj.hash), asset_obj.id)
         IN  IF NeedsDownload(disk, file, asset_obj.size)
             THEN PlanAssets(Tail(objects), ListAppend(dl, entry).dl, Append(new, entry),
                             <<file>>, disk)
             ELSE PlanAssets(Tail(objects), dl, new, <<file>>, disk)

\* the closure finalize of install_assets: the variables it reads
Finalize(assets_index, assets_virtual_dir, asset_file) ==
    [index |-> assets_index, virtual_dir |-> assets_virtual_dir, asset_file |-> asset_file]

\* Version.install_assets; the server may fail to serve the index
install_assets ==
    /\ i_pc \in {"new", "planning"}
    /\ i_calls < MaxPlans
    /\ i_calls' = i_calls + 1
    /\ i_last' = "install_assets"
    /\ i_pre' = i_disk
    /\ i_ret' = <<>>
    /\ IF i_meta = <<>>
       THEN /\ i_raised' = <<MetadataNotInstalled>>
            /\ i_new' = <<>>
            /\ UNCHANGED <<i_assets, i_dl, i_disk>>
       ELSE LET assets_index_version == i_meta[1].assets
                assets_index_file == IndexFile(assets_index_version)
                cached == IsFile(i_disk, assets_index_file)
                assets_index == i_net_index
                assets_virtual_dir == VirtualDir(assets_index_version)
                planned == PlanAssets(assets_index.objects, i_dl, <<>>, <<>>, i_disk)
                callback == Finalize(assets_index, assets_virtual_dir, planned.asset_file)
            IN  \/ /\ ~cached
                   /\ i_raised' = <<SocketError>>
                   /\ i_new' = <<>>
                   /\ UNCHANGED <<i_assets, i_dl, i_disk>>
                \/ /\ i_disk' = [i_disk EXCEPT ![assets_index_file] = assets_index.text]
                   /\ i_dl' = [planned.dl EXCEPT !.callbacks = AddCallback(@, callback)]
                   /\ i_new' = planned.new
                   /\ i_assets' = <<assets_index_version, assets_virtual_dir>>
                   /\ i_raised' = <<>>
    /\ UNCHANGED <<i_meta, i_version_dir, i_jar_file, i_net_index, i_pc>>
    /\ UNCHANGED nonInstVars

\* the entries and the callback another planner hands to self.dl: with and without
\* a size, and of a scheme that append refuses
LibraryEntry(scheme, netloc, sized, size, name) ==
    [InstEntry([scheme |-> scheme, netloc |-> netloc, path |-> <<name>>],
               <<"libraries", name>>, size, name, name) EXCEPT !.sized = sized]
OtherEntries ==
    {LibraryEntry("https", "libraries.minecraft.net", TRUE, 2, "a.jar"),
     LibraryEntry("https", "libraries.minecraft.net", FALSE, 0, "b.jar"),
     LibraryEntry("http", "libraries.minecraft.net", FALSE, 0, "c.jar"),
     LibraryEntry("HTTPS", "resources.download.minecraft.net", TRUE, 3, "d.jar"),
     LibraryEntry("ftp", "libraries.minecraft.net", TRUE, 2, "e.jar")}
OtherCallback == Finalize(i_net_index, <<"other">>, <<>>)

\* self.dl.append(entry) by another planner
list_append ==
    /\ i_pc \in {"new", "planning"}
    /\ i_calls < MaxPlans
    /\ i_calls' = i_calls + 1
    /\ \E entry \in OtherEntries :
        LET appended == ListAppend(i_dl, entry)
        IN  /\ i_dl' = appended.dl
            /\ i_raised' = appended.raised
            /\ i_new' = <<entry>>
    /\ i_last' = "append"
    /\ i_pre' = i_disk
    /\ i_ret' = <<>>
    /\ UNCHANGED <<i_meta, i_version_dir, i_jar_file, i_assets, i_net_index, i_disk, i_pc>>
    /\ UNCHANGED nonInstVars

\* self.dl.add_callback(callback) by another planner
list_add_callback ==
    /\ i_pc \in {"new", "planning"}
    /\ i_calls < MaxPlans
    /\ i_calls' = i_calls + 1
    /\ i_dl' = [i_dl EXCEPT !.callbacks = AddCallback(@, OtherCallback)]
    /\ i_last' = "add_callback"
    /\ i_new' = <<>>
    /\ i_pre' = i_disk
    /\ i_raised' = <<>>
    /\ i_ret' = <<>>
    /\ UNCHANGED <<i_meta, i_version_dir, i_jar_file, i_assets, i_net_index, i_disk, i_pc>>
    /\ UNCHANGED nonInstVars

\* the download of self.dl, as the specification has it: every entry is at its
\* destination with the expected bytes, and the list is drained
downloads_complete ==
    /\ i_pc = "planning"
    /\ i_dl.count > 0 \/ i_dl.callbacks # <<>>
    /\ LET places == PlacesOf(i_dl.entries)
           Written(f) == {e \in places : i_dl.entries[e[1]][e[2]].dst = <<f>>}
       IN  i_disk' = [f \in DOMAIN i_disk |->
                        IF Written(f) = {} THEN i_disk[f]
                        ELSE LET e == CHOOSE e \in Written(f) : TRUE
                             IN  i_dl.entries[e[1]][e[2]].sha1]
    /\ i_dl' = [i_dl EXCEPT !.entries = EmptyDict, !.count = 0, !.size = 0]
    /\ i_pc' = "downloaded"
    /\ i_last' = "download"
    /\ i_pre' = i_disk
    /\ i_new' = <<>>
    /\ i_raised' = <<>>
    /\ i_ret' = <<>>
    /\ UNCHANGED <<i_meta, i_version_dir, i_jar_file, i_assets, i_net_index, i_calls>>
    /\ UNCHANGED nonInstVars

\* shutil.copyfile(src, dst) when dst is no file: the disk and <<>> or <<the exception>>
CopyIfAbsent(copied, src, dst) ==
    IF copied.raised # <<>> \/ IsFile(copied.disk, dst) THEN copied
    ELSE IF src = <<>> \/ ~IsFile(copied.disk, src[1])
    THEN [copied EXCEPT !.raised = <<CopySourceNotFound>>]
    ELSE [copied EXCEPT !.disk = [@ EXCEPT ![dst] = copied.disk[src[1]]]]

\* the file finalize copies for an asset: the local asset_file of install_assets,
\* which the loop of the planner left bound to the file of the last object
FinalizeSource(callback, asset_obj) == callback.asset_file

\* the loop of finalize over assets_index["objects"].keys()
RECURSIVE FinalizeLoop(_, _, _)
FinalizeLoop(objects, callback, copied) ==
    IF objects = <<>> \/ copied.raised # <<>> THEN copied
    ELSE LET asset_obj == Head(objects)
             src == FinalizeSource(callback, asset_obj)
             mapped == IF callback.index.map_to_resources
                       THEN CopyIfAbsent(copied, src, ResourcesFile(asset_obj.id))
                       ELSE copied
             virtual == IF callback.index.virtual
                        THEN CopyIfAbsent(mapped, src, VirtualFile(callback.virtual_dir, asset_obj.id))
                        ELSE mapped
         IN  FinalizeLoop(Tail(objects), callback, virtual)

\* the first callback of self.dl is called after the downloads: finalize of
\* install_assets
assets_finalize ==
    /\ i_pc = "downloaded"
    /\ i_dl.callbacks # <<>>
    /\ LET callback == Head(i_dl.callbacks)
           copied == IF callback.index.map_to_resources \/ callback.index.virtual
                     THEN FinalizeLoop(callback.index.objects, callback,
                                       [disk |-> i_disk, raised |-> <<>>])
                     ELSE [disk |-> i_disk, raised |-> <<>>]
       IN  /\ i_disk' = copied.disk
           /\ i_raised' = copied.raised
           /\ i_dl' = [i_dl EXCEPT !.callbacks = IF copied.raised # <<>> THEN <<>> ELSE Tail(@)]
    /\ i_last' = "finalize"
    /\ i_pre' = i_disk
    /\ i_new' = <<>>
    /\ i_ret' = <<>>
    /\ UNCHANGED <<i_meta, i_version_dir, i_jar_file, i_assets, i_net_index, i_pc, i_calls>>
    /\ UNCHANGED nonInstVars

\* every callback was called: the list can be planned again
download_end ==
    /\ i_pc = "downloaded"
    /\ i_dl.callbacks = <<>>
    /\ i_pc' = "planning"
    /\ UNCHANGED <<i_meta, i_version_dir, i_jar_file, i_assets, i_dl, i_net_index, i_disk,
                   i_last, i_new, i_pre, i_raised, i_ret, i_calls>>
    /\ UNCHANGED nonInstVars

\* Version.install_logger: self.dl, the entries appended, the exception and the
\* value returned. real_logging_file is a name that is not bound.
InstallLogger(meta, dl, disk) ==
    LET unchanged == [dl |-> dl, new |-> <<>>, raised |-> <<>>, ret |-> <<>>]
    IN  IF meta = <<>> THEN [unchanged EXCEPT !.raised = <<TypeError>>]
        ELSE IF meta[1].logging # "client" THEN unchanged
        ELSE LET logging_file_info == ClientLogging.file
                 logging_file == LoggingFile(logging_file_info.id)
                 download_entry == FromMeta(logging_file_info, <<logging_file>>,
                                            logging_file_info.id)
                 dirty == NeedsDownload(disk, logging_file, download_entry.size)
                 appended == IF dirty THEN ListAppend(dl, download_entry)
                             ELSE [dl |-> dl, raised |-> <<>>]
             IN  IF appended.raised # <<>>
                 THEN [unchanged EXCEPT !.new = <<download_entry>>, !.raised = appended.raised]
                 ELSE [dl |-> appended.dl,
                       new |-> IF dirty THEN <<download_entry>> ELSE <<>>,
                       raised |-> <<NameError("real_logging_file")>>,
                       ret |-> <<>>]

install_logger ==
    /\ i_pc \in {"new", "planning"}
    /\ i_calls < MaxPlans
    /\ i_calls' = i_calls + 1
    /\ LET r == InstallLogger(i_meta, i_dl, i_disk)
       IN  /\ i_dl' = r.dl
           /\ i_new' = r.new
           /\ i_raised' = r.raised
           /\ i_ret' = r.ret
    /\ i_last' = "install_logger"
    /\ i_pre' = i_disk
    /\ UNCHANGED <<i_meta, i_version_dir, i_jar_file, i_assets, i_net_index, i_disk, i_pc>>
    /\ UNCHANGED nonInstVars

-----------------------------------------------------------------------------
(* Sequence.prepend_task and append_task (specification 4.4), forge.py: add_forge_tasks *)

\* a task object: its class and its identity
Task(type, id) == [type |-> type, id |-> id]
NoTask == Task("", 0)

\* the tasks of a vanilla sequence, and the classes of the tasks an edit may add
VanillaTasks ==
    <<Task("MetadataTask", 1), Task("JarTask", 2), Task("DownloadTask", 3), Task("RunTask", 4)>>
AddedTypes == {"MetadataTask", "JarTask", "OtherTask"}

\* the index of the first and of the last task of type T
FirstOf(tasks, T) ==
    CHOOSE j \in 1..Len(tasks) : tasks[j].type = T /\ \A k \in 1..(j - 1) : tasks[k].type # T
LastOf(tasks, T) ==
    CHOOSE j \in 1..Len(tasks) : tasks[j].type = T /\ \A k \in (j + 1)..Len(tasks) : tasks[k].type # T
\* list.insert(at - 1, t)
InsertAt(tasks, at, t) ==
    [j \in 1..(Len(tasks) + 1) |-> IF j < at THEN tasks[j] ELSE IF j = at THEN t ELSE tasks[j - 1]]

\* seq.prepend_task(t, before=T), seq.append_task(t, after=T)
PrependTask(tasks, t, T) == InsertAt(tasks, FirstOf(tasks, T), t)
AppendTask(tasks, t, T) == InsertAt(tasks, LastOf(tasks, T) + 1, t)

\* an add_forge_tasks that puts the DownloadTask before the JarTask
AddForgeTasksBeforeJar(tasks, id) ==
    PrependTask(AppendTask(PrependTask(tasks, Task("ForgeInitTask", id), "MetadataTask"),
                           Task("ForgeFinalizeTask", id + 1), "JarTask"),
                Task("DownloadTask", id + 2), "JarTask")

\* add_forge_tasks(seq): the three edits, with task objects id, id + 1, id + 2
AddForgeTasks(tasks, id) ==
    LET a == PrependTask(tasks, Task("ForgeInitTask", id), "MetadataTask")
        b == AppendTask(a, Task("ForgeFinalizeTask", id + 1), "JarTask")
    IN  PrependTask(b, Task("DownloadTask", id + 2), "ForgeFinalizeTask")

InitSeqVars ==
    /\ q_tasks = VanillaTasks
    /\ q_pre = VanillaTasks
    /\ q_op = [name |-> "new", t |-> NoTask, T |-> ""]
    /\ q_next = Len(VanillaTasks) + 1
    /\ q_forged = FALSE
    /\ q_pc = "on"

IdleSeqVars ==
    /\ q_tasks = <<>>
    /\ q_pre = <<>>
    /\ q_op = [name |-> "new", t |-> NoTask, T |-> ""]
    /\ q_next = 1
    /\ q_forged = FALSE
    /\ q_pc = "off"

SeqEdit(name, t, T, tasks) ==
    /\ q_pre' = q_tasks
    /\ q_op' = [name |-> name, t |-> t, T |-> T]
    /\ q_tasks' = tasks
    /\ UNCHANGED q_pc
    /\ UNCHANGED nonSeqVars

prepend_task ==
    /\ q_pc = "on"
    /\ q_next <= Len(VanillaTasks) + MaxEdits
    /\ \E type \in AddedTypes, T \in {q_tasks[j].type : j \in 1..Len(q_tasks)} :
        SeqEdit("prepend_task", Task(type, q_next), T, PrependTask(q_tasks, Task(type, q_next), T))
    /\ q_next' = q_next + 1
    /\ UNCHANGED q_forged

append_task ==
    /\ q_pc = "on"
    /\ q_next <= Len(VanillaTasks) + MaxEdits
    /\ \E type \in AddedTypes, T \in {q_tasks[j].type : j \in 1..Len(q_tasks)} :
        SeqEdit("append_task", Task(type, q_next), T, AppendTask(q_tasks, Task(type, q_next), T))
    /\ q_next' = q_next + 1
    /\ UNCHANGED q_forged

add_forge_tasks ==
    /\ q_pc = "on"
    /\ ~q_forged
    /\ SeqEdit("add_forge_tasks", NoTask, "", AddForgeTasks(q_tasks, q_next + MaxEdits))
    /\ q_forged' = TRUE
    /\ UNCHANGED q_next

-----------------------------------------------------------------------------
(* richer.py: RicherAddon.run_game, the coroutines _run_process and _run *)

TimeoutExpired == <<"TimeoutExpired">>

InitGameVars ==
    /\ g_child = "running"
    /\ g_code = <<>>
    /\ g_app = "running"
    /\ g_ctrlc = FALSE
    /\ g_proc = "looping"
    /\ g_ticks = 0
    /\ g_pc = "waiting"
    /\ g_polled = ""
    /\ g_log = <<>>

IdleGameVars ==
    /\ g_child = "exited"
    /\ g_code = <<>>
    /\ g_app = "exited"
    /\ g_ctrlc = FALSE
    /\ g_proc = "done"
    /\ g_ticks = 0
    /\ g_pc = "off"
    /\ g_polled = ""
    /\ g_log = <<>>

GameOn == g_pc \notin {"off", "returned", "raised"}

\* the exit codes of a child that ends by itself, and of a killed one
ExitCodesOwn == {0, 1}
KilledCode == 0 - 9

\* the child process ends, by itself or by the kill
child_exit ==
    /\ GameOn
    /\ g_child = "running"
    /\ g_child' = "exited"
    /\ \E code \in ExitCodesOwn \cup (IF g_pc = "reap" THEN {KilledCode} ELSE {}) :
        g_code' = <<code>>
    /\ UNCHANGED <<g_app, g_ctrlc, g_proc, g_ticks, g_pc, g_log, g_polled>>
    /\ UNCHANGED nonGameVars

\* the key binding c-c: event.app.exit(), application.run_async() completes
key_exit ==
    /\ GameOn
    /\ g_app = "running"
    /\ g_app' = "exited"
    /\ g_ctrlc' = TRUE
    /\ UNCHANGED <<g_child, g_code, g_proc, g_ticks, g_pc, g_log, g_polled>>
    /\ UNCHANGED nonGameVars

\* one turn of the loop of _run_process: process.poll(), then the lines and the
\* sleep, or break
run_process_poll ==
    /\ g_pc = "waiting"
    /\ g_proc = "looping"
    /\ IF g_child = "running"
       THEN /\ g_ticks < MaxTicks
            /\ g_ticks' = g_ticks + 1
            /\ UNCHANGED g_proc
       ELSE /\ g_proc' = "done"
            /\ UNCHANGED g_ticks
    /\ UNCHANGED <<g_child, g_code, g_app, g_ctrlc, g_pc, g_log, g_polled>>
    /\ UNCHANGED nonGameVars

\* asyncio.wait(..., return_when=FIRST_COMPLETED) returns
wait_first_completed ==
    /\ g_pc = "waiting"
    /\ g_proc = "done" \/ g_app = "exited"
    /\ g_pc' = "resumed"
    /\ UNCHANGED <<g_child, g_code, g_app, g_ctrlc, g_proc, g_ticks, g_log, g_polled>>
    /\ UNCHANGED nonGameVars

\* a kill is never sent
KillNeededNever(child) == FALSE

\* process.poll() is None
KillNeeded(child) == child = "running"

\* if process.poll() is None: process.kill()
poll_and_kill ==
    /\ g_pc = "resumed"
    /\ g_polled' = IF g_child = "running" THEN "None" ELSE "code"
    /\ IF KillNeeded(g_child)
       THEN /\ g_log' = Append(g_log, "kill")
            /\ g_pc' = "reap"
       ELSE /\ g_pc' = "app_check"
            /\ UNCHANGED g_log
    /\ UNCHANGED <<g_child, g_code, g_app, g_ctrlc, g_proc, g_ticks>>
    /\ UNCHANGED nonGameVars

\* process.wait(timeout=5): returns once the child has ended, raises TimeoutExpired
\* when the five seconds pass first
process_wait ==
    /\ g_pc = "reap"
    /\ g_log' = Append(g_log, "wait")
    /\ IF g_child = "exited" THEN g_pc' = "app_check" ELSE g_pc' = "raised"
    /\ UNCHANGED <<g_child, g_code, g_app, g_ctrlc, g_proc, g_ticks, g_polled>>
    /\ UNCHANGED nonGameVars

\* if application.is_running: application.exit(); then _run and run_game return
application_exit ==
    /\ g_pc = "app_check"
    /\ IF g_app = "running"
       THEN /\ g_log' = Append(g_log, "exit")
            /\ g_app' = "exited"
       ELSE UNCHANGED <<g_log, g_app>>
    /\ g_pc' = "returned"
    /\ UNCHANGED <<g_child, g_code, g_ctrlc, g_proc, g_ticks, g_polled>>
    /\ UNCHANGED nonGameVars

-----------------------------------------------------------------------------
(* VersionManifest.search_versions and get_version on ids given by their characters *)

\* the ids of versions, the aliases of "latest", and what a query may ask for
VersionIds == {<<"1">>, <<"1", "2">>, <<"2", "1">>, <<"r">>}
Aliases == {<<"r">>, <<"s">>}
Latests ==
    {[a \in Aliases |-> IF a = <<"r">> THEN <<"1">> ELSE <<"1", "2">>],
     [a \in Aliases |-> <<"2", "1">>],
     [a \in Aliases |-> IF a = <<"r">> THEN <<"r">> ELSE <<"3">>]}
Queries == VersionIds \cup Aliases \cup {<<>>, <<"2">>, <<"3">>}

\* the lists of at most n version entries; 'url' tells the entries of one id apart
RECURSIVE VersionLists(_)
VersionLists(n) ==
    IF n = 0 THEN {<<>>}
    ELSE LET shorter == VersionLists(n - 1)
         IN  shorter \cup {Append(l, [id |-> id, url |-> n]) :
                             l \in {x \in shorter : Len(x) = n - 1}, id \in VersionIds}
Manifests == {[latest |-> latest, versions |-> versions] :
                latest \in Latests, versions \in VersionLists(MaxVersions)}

\* 'inp in id' on str
StrIn(inp, id) ==
    \E at \in 0..(Len(id) - Len(inp)) : \A j \in 1..Len(inp) : id[at + j] = inp[j]

\* a test that looks for the text in the id whether it came from an alias or not
SearchHitContains(alias, inp, id) == StrIn(inp, id)

\* '(alias and version_data["id"] == inp) or (not alias and inp in version_data["id"])'
SearchHit(alias, inp, id) == (alias /\ id = inp) \/ (~alias /\ StrIn(inp, id))

\* VersionManifest.search_versions: the entries it yields, in order
RECURSIVE SearchLoop(_, _, _)
SearchLoop(versions, inp, alias) ==
    IF versions = <<>> THEN <<>>
    ELSE (IF SearchHit(alias, inp, Head(versions).id) THEN <<Head(versions)>> ELSE <<>>)
         \o SearchLoop(Tail(versions), inp, alias)
SearchVersions(data, inp) ==
    LET latest == filter_latest(data, inp)
    IN  SearchLoop(data.versions, latest[1], latest[2])

InitManVars ==
    /\ v_data \in Manifests
    /\ v_inp = <<>>
    /\ v_op = "new"
    /\ v_out = <<>>

IdleManVars ==
    /\ v_data = [latest |-> <<>>, versions |-> <<>>]
    /\ v_inp = <<>>
    /\ v_op = "off"
    /\ v_out = <<>>

search_versions ==
    /\ v_op # "off"
    /\ \E inp \in Queries :
        /\ v_inp' = inp
        /\ v_out' = SearchVersions(v_data, inp)
    /\ v_op' = "search_versions"
    /\ UNCHANGED v_data
    /\ UNCHANGED nonManVars

manifest_get_version ==
    /\ v_op # "off"
    /\ \E inp \in Queries :
        /\ v_inp' = inp
        /\ v_out' = get_version(v_data, inp)
    /\ v_op' = "get_version"
    /\ UNCHANGED v_data
    /\ UNCHANGED nonManVars

-----------------------------------------------------------------------------
(* ThreadedProcessReader (addons/richer.py) *)

\* Python values that '==' tells apart by type: a str, a bytes, None
StrOf(text) == [kind |-> "str", text |-> text]
BytesOf(text) == [kind |-> "bytes", text |-> text]
NoLine == [kind |-> "None", text |-> <<>>]

\* the n-th line the child writes; a line of a text stream ends with "\n", so it is not ''
LineOf(n) == StrOf(<<n, "\n">>)

\* self._input.readline() on the text stream Popen(..., universal_newlines=True) gives:
\* the next line, or '' at end of file
Readline(pipe) == IF pipe # <<>> THEN Head(pipe) ELSE StrOf(<<>>)

\* the sentinel of iter(self._input.readline, b'')
Sentinel == BytesOf(<<>>)

\* self._queue.put_nowait(line) with 'except Full: pass'
PutNowait(queue, line) ==
    IF Len(queue) < QueueSize THEN Append(queue, line) ELSE queue

InitReadVars ==
    /\ r_pipe = <<>>
    /\ r_open = TRUE
    /\ r_sent = 0
    /\ r_thread = "running"
    /\ r_closed = FALSE
    /\ r_queue = <<>>
    /\ r_read = <<>>
    /\ r_got = <<>>
    /\ r_ret = NoLine

IdleReadVars ==
    /\ r_pipe = <<>>
    /\ r_open = FALSE
    /\ r_sent = 0
    /\ r_thread = "off"
    /\ r_closed = FALSE
    /\ r_queue = <<>>
    /\ r_read = <<>>
    /\ r_got = <<>>
    /\ r_ret = NoLine

\* the child writes a line to the stream
child_write ==
    /\ r_thread # "off"
    /\ r_open
    /\ r_sent < MaxLines
    /\ r_sent' = r_sent + 1
    /\ r_pipe' = Append(r_pipe, LineOf(r_sent + 1))
    /\ UNCHANGED <<r_open, r_thread, r_closed, r_queue, r_read, r_got, r_ret>>
    /\ UNCHANGED nonReadVars

\* the child closes its end of the stream (it exits)
child_close ==
    /\ r_thread # "off"
    /\ r_open
    /\ r_open' = FALSE
    /\ UNCHANGED <<r_pipe, r_sent, r_thread, r_closed, r_queue, r_read, r_got, r_ret>>
    /\ UNCHANGED nonReadVars

\* ThreadedProcessReader._entry: one round of the loop; readline waits while the stream
\* is empty and the child holds it open
reader_entry ==
    /\ r_thread = "running"
    /\ r_pipe # <<>> \/ ~r_open
    /\ Len(r_read) < MaxLines + QueueSize + 1
    /\ LET line == Readline(r_pipe)
       IN  /\ r_pipe' = IF r_pipe = <<>> THEN <<>> ELSE Tail(r_pipe)
           /\ IF line = Sentinel
              THEN /\ r_thread' = "done"
                   /\ r_closed' = TRUE
                   /\ UNCHANGED <<r_queue, r_read>>
              ELSE /\ r_queue' = PutNowait(r_queue, line)
                   /\ r_read' = Append(r_read, [line |-> line,
                                                kept |-> Len(r_queue) < QueueSize])
                   /\ UNCHANGED <<r_thread, r_closed>>
    /\ UNCHANGED <<r_open, r_sent, r_got, r_ret>>
    /\ UNCHANGED nonReadVars

\* ThreadedProcessReader.poll
reader_poll ==
    /\ r_thread # "off"
    /\ IF r_queue = <<>>
       THEN /\ r_ret' = NoLine
            /\ UNCHANGED <<r_queue, r_got>>
       ELSE /\ r_ret' = Head(r_queue)
            /\ r_queue' = Tail(r_queue)
            /\ r_got' = Append(r_got, Head(r_queue))
    /\ UNCHANGED <<r_pipe, r_open, r_sent, r_thread, r_closed, r_read>>
    /\ UNCHANGED nonReadVars

-----------------------------------------------------------------------------
(* Specifications *)

IdleLateVars == IdleSeqVars /\ IdleGameVars /\ IdleManVars /\ IdleReadVars
IdleEarlyVars ==
    /\ IdleMergeVars /\ IdleMetaVars /\ IdleAuthVars /\ IdleSessVars /\ IdleHttpVars
    /\ IdleForgeVars /\ IdleExecVars /\ IdleInstVars
IdleRest == IdleForgeVars /\ IdleExecVars /\ IdleInstVars /\ IdleLateVars

InitMerge == InitMergeVars /\ IdleMetaVars /\ IdleAuthVars /\ IdleSessVars /\ IdleHttpVars /\ IdleRest
NextMerge == MergeCall \/ MergeSelfCall
SpecMerge == InitMerge /\ [][NextMerge]_vars

InitMeta == InitMetaVars /\ IdleMergeVars /\ IdleAuthVars /\ IdleSessVars /\ IdleHttpVars /\ IdleRest
\* the steps of a running install_meta call
MetaStep ==
    install_meta_first \/ install_meta_loop \/ install_meta_merge \/ install_meta_end
NextMeta ==
    \/ install_meta_begin
    \/ install_meta_first
    \/ install_meta_loop
    \/ install_meta_merge
    \/ install_meta_end
SpecMeta == InitMeta /\ [][NextMeta]_vars
\* a call that was started runs on: Python executes the next statement
FairSpecMeta == SpecMeta /\ WF_vars(MetaStep)

InitAuth == InitAuthVars /\ IdleMergeVars /\ IdleMetaVars /\ IdleSessVars /\ IdleHttpVars /\ IdleRest
NextAuth ==
    \/ auth_put
    \/ auth_remove
    \/ ms_validate
    \/ auth_save_open
    \/ auth_save_dump
    \/ auth_save_fail
    \/ auth_load
    \/ auth_load_fresh
SpecAuth == InitAuth /\ [][NextAuth]_vars

\* an AuthDatabase on no files, and the calls of put, get and remove
InitStore ==
    /\ InitAuthVars /\ a_file = AbsentJson /\ a_legacy = AbsentText
    /\ IdleMergeVars /\ IdleMetaVars /\ IdleSessVars /\ IdleHttpVars /\ IdleRest
NextStore ==
    \/ auth_put
    \/ auth_get
    \/ auth_remove
SpecStore == InitStore /\ [][NextStore]_vars

InitSession == InitSessVars /\ IdleMergeVars /\ IdleMetaVars /\ IdleAuthVars /\ IdleHttpVars /\ IdleRest
NextSession ==
    \/ ms_session_validate
    \/ ms_refresh
    \/ oauth_token
    \/ xbl_auth
    \/ xsts_authorize
    \/ mc_auth
    \/ mc_profile
    \/ ms_refresh_assign
    \/ ygg_validate
    \/ ygg_refresh
SpecSession == InitSession /\ [][NextSession]_vars

InitHttp == InitHttpVars /\ IdleMergeVars /\ IdleMetaVars /\ IdleAuthVars /\ IdleSessVars /\ IdleRest
NextHttp ==
    \/ json_request_begin
    \/ json_request_send
    \/ json_request_load
    \/ json_request_finally
    \/ dl_append
SpecHttp == InitHttp /\ [][NextHttp]_vars

InitForge ==
    InitForgeVars /\ IdleMergeVars /\ IdleMetaVars /\ IdleAuthVars /\ IdleSessVars /\ IdleHttpVars
    /\ IdleExecVars /\ IdleInstVars /\ IdleLateVars
NextForge ==
    \/ fetch_version_begin
    \/ request_install_jar
    \/ fetch_version_profile
    \/ finalize_begin
    \/ processor_start
    \/ processor_run
    \/ finalize_end
SpecForge == InitForge /\ [][NextForge]_vars

InitDownload ==
    InitExecVars /\ InitHttpVars /\ IdleMergeVars /\ IdleMetaVars /\ IdleAuthVars /\ IdleSessVars
    /\ IdleForgeVars /\ IdleInstVars /\ IdleLateVars
NextDownload ==
    \/ plan_append
    \/ add_callback
    \/ download_begin
    \/ worker_connect
    \/ worker_begin
    \/ worker_finish
    \/ worker_close
    \/ callbacks_begin
    \/ callback_run
    \/ callbacks_end
SpecDownload == InitDownload /\ [][NextDownload]_vars

InitInstall ==
    InitInstVars /\ IdleMergeVars /\ IdleMetaVars /\ IdleAuthVars /\ IdleSessVars /\ IdleHttpVars
    /\ IdleForgeVars /\ IdleExecVars /\ IdleLateVars
NextInstall ==
    \/ install_meta_done
    \/ install_jar
    \/ install_assets
    \/ install_logger
    \/ downloads_complete
    \/ assets_finalize
    \/ download_end
SpecInstall == InitInstall /\ [][NextInstall]_vars

\* the planning of a Version: the planners and the calls of other planners on self.dl
NextPlan ==
    \/ install_meta_done
    \/ install_jar
    \/ install_assets
    \/ install_logger
    \/ list_append
    \/ list_add_callback
InitPlan ==
    /\ InitInstall
    /\ i_disk[ResourcesFile("a")] = "absent"
    /\ i_disk[LoggingFile("client-1.12.xml")] = "absent"
    /\ i_disk[<<"versions", "v", "v.jar">>] = "absent"
    /\ i_disk[ObjectFile(<<"ab", "1">>)] # "short"
SpecPlan == InitPlan /\ [][NextPlan]_vars

InitSeq == InitSeqVars /\ IdleEarlyVars /\ IdleGameVars /\ IdleManVars /\ IdleReadVars
NextSeq ==
    \/ prepend_task
    \/ append_task
    \/ add_forge_tasks
SpecSeq == InitSeq /\ [][NextSeq]_vars

InitGame == InitGameVars /\ IdleEarlyVars /\ IdleSeqVars /\ IdleManVars /\ IdleReadVars
NextGame ==
    \/ child_exit
    \/ key_exit
    \/ run_process_poll
    \/ wait_first_completed
    \/ poll_and_kill
    \/ process_wait
    \/ application_exit
SpecGame == InitGame /\ [][NextGame]_vars

InitSearch == InitManVars /\ IdleEarlyVars /\ IdleSeqVars /\ IdleGameVars /\ IdleReadVars
NextSearch ==
    \/ search_versions
    \/ manifest_get_version
SpecSearch == InitSearch /\ [][NextSearch]_vars

InitReader == InitReadVars /\ IdleEarlyVars /\ IdleSeqVars /\ IdleGameVars /\ IdleManVars
NextReader ==
    \/ child_write
    \/ child_close
    \/ reader_entry
    \/ reader_poll
SpecReader == InitReader /\ [][NextReader]_vars

-----------------------------------------------------------------------------
(* Claims about Util.merge_dict on its own (SpecMerge) *)

\* the deep-merge law, key by key: r is the result, a the destination (child), b the parent
RECURSIVE MergeLaw(_, _, _)
MergeLaw(r, a, b) ==
    /\ DOMAIN a \subseteq DOMAIN r
    /\ DOMAIN r \subseteq DOMAIN a \cup DOMAIN b
    /\ DOMAIN b \subseteq DOMAIN r
    /\ \A k \in DOMAIN r :
          IF k \notin DOMAIN a THEN r[k] = b[k]
          ELSE IF k \notin DOMAIN b THEN r[k] = a[k]
          ELSE IF a[k].t = "d" /\ b[k].t = "d"
               THEN r[k].t = "d" /\ MergeLaw(r[k].d, a[k].d, b[k].d)
          ELSE IF a[k].t = "l" /\ b[k].t = "l"
               THEN r[k].t = "l" /\ r[k].l = a[k].l \o b[k].l
          ELSE r[k] = a[k]

\* C2: after merge_dict(a, b) every key k of the result holds b[k] when k is not in a,
\* merge(a[k], b[k]) when both are dicts, a[k] followed by b[k] when both are lists,
\* and a[k] otherwise (child wins every other collision); no key of a is removed.
C2_DeepMergeLaw == m_pc = "merged" => MergeLaw(m_res, m_dst, m_other)

\* C2 witness: a merge with a list/list collision of non-empty lists, a dict/dict
\* collision holding a list/scalar mismatch, and the child's value kept there.
C2_Witness ==
    /\ m_pc = "merged"
    /\ m_dst = [libraries |-> L(ListOf("a", 1)), arguments |-> D([jvm |-> L(ListOf("a", 2))])]
    /\ m_other = [libraries |-> L(ListOf("b", 2)), arguments |-> D([jvm |-> S("b")])]
    /\ m_res = [libraries |-> L(<< <<"a", 1>>, <<"b", 1>>, <<"b", 2>> >>),
                arguments |-> D([jvm |-> L(ListOf("a", 2))])]

\* m with every list, at any depth, followed by itself
RECURSIVE DoubleLists(_)
DoubleLists(m) ==
    [k \in DOMAIN m |->
        IF m[k].t = "l" THEN L(m[k].l \o m[k].l)
        ELSE IF m[k].t = "d" THEN D(DoubleLists(m[k].d))
        ELSE m[k]]

\* m holds no non-empty list at any depth
RECURSIVE NoNonEmptyList(_)
NoNonEmptyList(m) ==
    \A k \in DOMAIN m :
        /\ m[k].t = "l" => m[k].l = <<>>
        /\ m[k].t = "d" => NoNonEmptyList(m[k].d)

\* C8 as stated: merge(m, m) equals m for every document m, lists included.
C8_Idempotent == m_pc = "self" => m_res = m_dst

\* C8 amended: merge(m, m) equals m for every document m that holds no non-empty
\* list; in general merge(m, m) is m with every list followed by itself.
C8_IdempotentWithoutLists ==
    m_pc = "self" =>
        /\ m_res = DoubleLists(m_dst)
        /\ NoNonEmptyList(m_dst) => m_res = m_dst
        /\ ~NoNonEmptyList(m_dst) => m_res # m_dst

\* C8 witness: the self-merge of a document with an empty list and a nested dict
\* of a scalar has left it as it was.
C8_Witness ==
    /\ m_pc = "self"
    /\ m_dst = [libraries |-> L(<<>>), arguments |-> D([jvm |-> S("a")])]
    /\ m_res = m_dst

-----------------------------------------------------------------------------
(* Claims about Version.install_meta (SpecMeta, FairSpecMeta) *)

\* the version that v's stored descriptor inherits from
ParentOf(v) ==
    IF "inheritsFrom" \in DOMAIN net_docs[v] THEN net_docs[v]["inheritsFrom"].s ELSE NoParent

\* v followed by its ancestors, nearest first, at most n versions
RECURSIVE ChainFrom(_, _)
ChainFrom(v, n) ==
    IF v = NoParent \/ n = 0 THEN <<>> ELSE <<v>> \o ChainFrom(ParentOf(v), n - 1)

\* v's inheritsFrom chain ends
AcyclicFrom(v) == Len(ChainFrom(v, Cardinality(Versions) + 1)) <= Cardinality(Versions)

HasLibraries(doc) == "libraries" \in DOMAIN doc /\ doc["libraries"].t = "l"
HasJvm(doc) ==
    /\ "arguments" \in DOMAIN doc /\ doc["arguments"].t = "d"
    /\ "jvm" \in DOMAIN doc["arguments"].d /\ doc["arguments"].d["jvm"].t = "l"
LibrariesOf(doc) == IF HasLibraries(doc) THEN doc["libraries"].l ELSE <<>>
JvmOf(doc) == IF HasJvm(doc) THEN doc["arguments"].d["jvm"].l ELSE <<>>

IsPrefix(p, q) == Len(p) <= Len(q) /\ SubSeq(q, 1, Len(p)) = p

\* install_meta has returned and the requested version inherits from a parent
ResolvedChild == pc = "done" /\ ParentOf(version) # NoParent

ListUnder(doc, key) == IF key = "libraries" THEN LibrariesOf(doc) ELSE JvmOf(doc)

\* the lists found under a key along a chain of versions, in chain order
RECURSIVE ConcatAlong(_, _)
ConcatAlong(chain, key) ==
    IF chain = <<>> THEN <<>>
    ELSE ListUnder(net_docs[Head(chain)], key) \o ConcatAlong(Tail(chain), key)

\* C3: for every acyclic inheritsFrom chain, the document install_meta leaves in
\* version_meta has no inheritsFrom key, and every ancestor of the chain was merged
\* into it exactly once, nearest parent first.
C3_ChainMergedOnce ==
    (pc = "done" /\ AcyclicFrom(version)) =>
        LET chain == ChainFrom(version, Cardinality(Versions))
        IN  /\ "inheritsFrom" \notin DOMAIN version_meta[1]
            /\ resolved = chain
            /\ LibrariesOf(version_meta[1]) = ConcatAlong(chain, "libraries")
            /\ JvmOf(version_meta[1]) = ConcatAlong(chain, "jvm")

\* C3 witness: a resolved chain of three versions, each with its own libraries.
C3_Witness ==
    /\ pc = "done"
    /\ Len(ChainFrom(version, Cardinality(Versions))) = 3
    /\ \A v \in Versions : HasLibraries(net_docs[v])
    /\ Len(LibrariesOf(version_meta[1])) = 3 * LibLen
    /\ resolved = ChainFrom(version, Cardinality(Versions))

\* C4: after install_meta(v) the resolved document's id equals the requested id v,
\* whatever id the stored child and its parents carry.
C4_IdIsRequested ==
    pc = "done" => ("id" \in DOMAIN version_meta[1] /\ version_meta[1]["id"] = S(version))

\* C5: install_meta always terminates: a call that was started returns or raises,
\* also when the inheritsFrom links form a cycle.
C5_Terminates == (pc \in {"internal", "loop", "merge"}) ~> (pc \in {"done", "failed"})

\* C6: after install_meta(v) succeeds, the file versions/<v>/<v>.json holds the
\* resolved document, so that re-reading the file gives version_meta.
C6_FileHoldsResolved == pc = "done" => files[version] = JsonFile(version_meta[1])

\* the id that the next step of install_meta resolves, NoParent when it resolves none
Resolving ==
    IF pc = "internal" THEN version
    ELSE IF pc = "loop" /\ "inheritsFrom" \in DOMAIN l_version_meta
         THEN l_version_meta["inheritsFrom"].s
         ELSE NoParent

Listed(ver) == \E i \in 1..Len(manifest[1].versions) : manifest[1].versions[i].id = ver

\* one resolution of the id r
C7_Resolution(r) ==
    IF files[r].st = "ok"
    THEN /\ request' = <<>>
         /\ files' = files
         /\ pc' \in {"loop", "merge"}
         /\ pc = "internal" => l_version_meta' = files[r].doc
         /\ pc = "loop" => l_parent_meta' = files[r].doc
    ELSE IF ~Listed(r)
    THEN /\ pc' = "failed"
         /\ error' = <<VersionNotFound(r)>>
         /\ request' = <<>>
         /\ files' = files /\ dirs' = dirs
         /\ version_meta' = version_meta /\ version_dir' = version_dir
    ELSE /\ request' = << <<"meta", r>> >>
         /\ \/ /\ pc' \in {"loop", "merge"}
               /\ files' = [files EXCEPT ![r] = JsonFile(net_docs[r])]
               /\ pc = "internal" => l_version_meta' = net_docs[r]
               /\ pc = "loop" => l_parent_meta' = net_docs[r]
            \/ /\ pc' = "failed"
               /\ error' = <<JsonRequestError>>
               /\ files' = files

\* C7: resolving one id uses the cached file when it is readable and decodable,
\* without requesting the descriptor; otherwise the id is looked up in the manifest:
\* if it is not there the resolution fails with VersionNotFound(id), writes no file and
\* leaves version_meta and version_dir unset; if it is, the fetched content is written
\* to the file, and a readable file is never changed again, so that a second
\* resolution reads the same document from the cache.
C7_CacheOrFetch ==
    /\ [][Resolving # NoParent => C7_Resolution(Resolving)]_vars
    /\ [][\A v \in DOMAIN files : files[v].st = "ok" => files'[v] = files[v]]_vars
    /\ []((pc = "failed" /\ error # <<>> /\ error[1][1] = "VersionError.not_found")
            => (version_meta = <<>> /\ version_dir = <<>>))

\* C7 witness: the requested version had no readable file, was found in the
\* manifest, fetched, and its descriptor written to the file.
C7_Witness ==
    /\ pc = "loop"
    /\ resolved = <<version>>
    /\ request = << <<"meta", version>> >>
    /\ files[version] = JsonFile(net_docs[version])
    /\ l_version_meta = net_docs[version]

-----------------------------------------------------------------------------
(* Claims about the AuthDatabase *)

\* the (tag, key) pairs of a sessions mapping
Pairs(sessions) ==
    UNION {{<<typ, key>> : key \in DOMAIN sessions[typ]} : typ \in DOMAIN sessions}

KnownTags(sessions) == DOMAIN sessions \subseteq AuthTypes

SameFields(typ, s1, s2) ==
    \A i \in 1..Len(FieldsOf(typ)) : s1[FieldsOf(typ)[i]] = s2[FieldsOf(typ)[i]]

NoPendingRename(sessions) ==
    "microsoft" \in DOMAIN sessions
        => \A key \in DOMAIN sessions["microsoft"] :
                sessions["microsoft"][key]["_new_username"] = None

SomePendingRename(sessions) ==
    /\ "microsoft" \in DOMAIN sessions
    /\ \E key \in DOMAIN sessions["microsoft"] :
            sessions["microsoft"][key]["_new_username"] # None

\* C9: when every session of a database has a known tag, save followed by load on
\* a fresh database raises nothing and gives the same (tag, key) pairs, every
\* session with equal values of the fields of its type, and no pending rename
\* of a microsoft session.
C9_SaveLoadRestores ==
    (a_last = "save_load" /\ KnownTags(a_sessions))
        => /\ a_raised = <<>>
           /\ Pairs(a_sessions2[1]) = Pairs(a_sessions)
           /\ \A pair \in Pairs(a_sessions) :
                SameFields(pair[1], a_sessions2[1][pair[1]][pair[2]],
                           a_sessions[pair[1]][pair[2]])
           /\ NoPendingRename(a_sessions2[1])

\* a database holding a yggdrasil session and a microsoft session with a pending
\* rename has been saved and loaded afresh
C9_Witness ==
    /\ a_last = "save_load"
    /\ \E key \in Emails : <<"yggdrasil", key>> \in Pairs(a_sessions)
    /\ SomePendingRename(a_sessions)

\* a decode or shape error of the primary file: no JSON, no object, or a known tag
\* whose value is no mapping, lacks "sessions", or holds a non-mapping
ShapeError(file) ==
    \/ file.st = "garbage"
    \/ /\ file.st = "json"
       /\ \/ file.val.t # "o"
          \/ \E i \in 1..Len(file.val.o) :
                LET typ_data == file.val.o[i].v
                IN  /\ file.val.o[i].k \in AuthTypes
                    /\ \/ typ_data.t # "o"
                       \/ ~HasMember(typ_data, "sessions")
                       \/ GetMember(typ_data, "sessions").t # "o"
                       \/ \E j \in 1..Len(GetMember(typ_data, "sessions").o) :
                            GetMember(typ_data, "sessions").o[j].v.t # "o"

\* C10: load propagates no error, and after a load of a primary file with a
\* decode or shape error the in-memory map holds no session.
C10_LoadToleratesErrors ==
    a_last = "load"
        => /\ a_raised = <<>>
           /\ ShapeError(a_file) => Pairs(a_sessions) = {}

\* the 5-token lines of a legacy file
FiveTokenLines(lines) == {i \in 1..Len(lines) : Len(lines[i].tokens) = 5}

\* sessions holds, under "yggdrasil", one session per key of a 5-token line, with the
\* tokens 2..5 of the last such line as client_token, username, uuid, access_token
ImportedFrom(lines, sessions) ==
    LET five == FiveTokenLines(lines)
        lastOf(key) == CHOOSE i \in five :
                            /\ lines[i].tokens[1] = key
                            /\ \A j \in five : lines[j].tokens[1] = key => j <= i
    IN  /\ Pairs(sessions) = {<<"yggdrasil", lines[i].tokens[1]>> : i \in five}
        /\ \A i \in five :
            LET key == lines[i].tokens[1]
                tokens == lines[lastOf(key)].tokens
                sess == sessions["yggdrasil"][key]
            IN  /\ sess["client_token"] = tokens[2]
                /\ sess["username"] = tokens[3]
                /\ sess["uuid"] = tokens[4]
                /\ sess["access_token"] = tokens[5]

\* C11: load leaves the legacy file untouched when the primary file is present; when
\* the primary file is absent and the legacy file present, every 5-token line becomes
\* a yggdrasil session keyed by token 1 whose client_token, username, uuid and
\* access_token are the tokens 2..5, the other lines are skipped, and the legacy
\* file no longer exists after the load.
C11_LegacyImport ==
    [][auth_load =>
        IF a_file.st # "absent"
        THEN a_legacy' = a_legacy
        ELSE a_legacy.st # "absent"
                => /\ a_legacy' = AbsentText
                   /\ ImportedFrom(a_legacy.lines, a_sessions')]_vars

\* C12: save is atomic: whenever the primary file changes, it changes to the complete
\* document of the sessions being saved, never to an empty or partial file.
C12_SaveAtomic ==
    [][a_file' # a_file => a_file' = JsonText(SaveDoc(a_sessions))]_vars

\* what the database holds for a pair of a type tag and a key: <<>> or <<session>>
Stored(sessions, typ, key) ==
    IF typ \in DOMAIN sessions /\ key \in DOMAIN sessions[typ] THEN <<sessions[typ][key]>>
    ELSE <<>>
StorePairs == {"yggdrasil", "microsoft", "raw"} \X {"k1", "k2"}
\* the latest call changed nothing for the pairs it was not called with
OtherPairsKept ==
    \A pair \in StorePairs \ {<<a_args.typ, a_args.key>>} :
        Stored(a_sessions, pair[1], pair[2]) = Stored(a_pre, pair[1], pair[2])
\* the latest call returned what was stored for its pair when it began
ReturnedStored ==
    LET was == Stored(a_pre, a_args.typ, a_args.key)
    IN  IF was = <<>> THEN a_ret.kind = "none"
        ELSE a_ret.kind = "session" /\ a_ret.sess = was[1]

\* C35: among calls of put, get and remove, get returns what is stored for the pair
\* of the type tag and the key and changes nothing; after put(k, s) the pair of k and
\* the tag of s holds s and no other pair has changed; remove returns the session of
\* its pair, leaves the pair empty and changes no other pair; remove of an absent
\* pair returns nothing and changes nothing; put of a session whose tag is not
\* registered raises and changes nothing.
C35_StoreByPair ==
    /\ a_last = "get" => (ReturnedStored /\ a_sessions = a_pre /\ a_raised = <<>>)
    /\ a_last = "put" =>
        /\ a_raised # <<>> <=> a_args.typ \notin {"yggdrasil", "microsoft"}
        /\ a_raised # <<>> => a_sessions = a_pre
        /\ a_raised = <<>> =>
            /\ Stored(a_sessions, a_args.typ, a_args.key) = <<a_args.sess>>
            /\ OtherPairsKept
    /\ a_last = "remove" =>
        /\ a_raised = <<>>
        /\ ReturnedStored
        /\ Stored(a_sessions, a_args.typ, a_args.key) = <<>>
        /\ OtherPairsKept
        /\ Stored(a_pre, a_args.typ, a_args.key) = <<>> => a_sessions = a_pre

\* a session was removed under one tag while the other tag holds a session under the
\* same key
C35_Witness ==
    /\ a_last = "remove"
    /\ a_args.typ = "yggdrasil" /\ a_args.key = "k1"
    /\ a_ret.kind = "session"
    /\ Stored(a_sessions, "microsoft", "k1") # <<>>
    /\ Stored(a_sessions, "yggdrasil", "k2") # <<>>
    /\ Stored(a_sessions, "yggdrasil", "k1") = <<>>

-----------------------------------------------------------------------------
(* Claims about the auth sessions (SpecSession) *)

ChainOrder ==
    <<MS_OAUTH_TOKEN_URL, MS_XBL_AUTH_URL, MS_XSTS_AUTH_URL, MC_AUTH_URL, MC_PROFILE_URL>>

\* the urls of the requests of a log, in the order they were sent
Requests(log) ==
    LET sent == SelectSeq(log, LAMBDA e : e.ev = "request")
    IN  [i \in 1..Len(sent) |-> sent[i].url]

\* every request but the first directly follows the response to the request before it
AfterResponses(log) ==
    \A i \in 2..Len(log) :
        log[i].ev = "request"
            => /\ log[i - 1].ev = "response"
               /\ i > 2 /\ log[i - 2] = [ev |-> "request", url |-> log[i - 1].url]

HashesDiffer ==
    s_loc.xsts_user_hash # "" /\ s_loc.xsts_user_hash # s_loc.xbl_user_hash

\* C13: the requests of the token chain are a prefix of token endpoint, XBL auth,
\* XSTS authorize, game-service auth, profile, each sent only after the response to
\* the one before; when the user hash of the XSTS response differs from the one of
\* the XBL response the chain has failed with InconsistentUserHash and neither the
\* game-service auth request nor the profile request was sent.
C13_ChainInOrder ==
    s_last = "refresh_chain"
        => /\ IsPrefix(Requests(s_log), ChainOrder)
           /\ AfterResponses(s_log)
           /\ HashesDiffer
                => /\ s_pc = "idle"
                   /\ s_raised = <<InconsistentUserHash>>
                   /\ Requests(s_log) = SubSeq(ChainOrder, 1, 3)

\* the chain has stopped on an XSTS response whose user hash is not the XBL one
C13_Witness ==
    /\ s_last = "refresh_chain"
    /\ HashesDiffer
    /\ s_raised = <<InconsistentUserHash>>
    /\ Len(s_log) = 6

SameBut(s1, s2, attrs) ==
    /\ DOMAIN s1 = DOMAIN s2
    /\ \A f \in DOMAIN s1 \ attrs : s1[f] = s2[f]

ChainFields == {"access_token", "username", "uuid", "refresh_token"}

\* C14: while refresh runs the chain and after the chain has failed, at whatever
\* step, the session is as it was before the call; after a successful refresh
\* access_token, username, uuid and refresh_token are all those of the chain's result.
C14_FailedRefreshMutatesNothing ==
    s_last = "refresh_chain"
        => IF s_pc = "idle" /\ s_raised = <<>>
           THEN /\ \A f \in ChainFields : s_sess[f] = s_res[1][f]
                /\ SameBut(s_sess, s_pre, ChainFields)
           ELSE s_sess = s_pre

\* a refresh has failed on the answer to its last request
C14_Witness ==
    /\ s_last = "refresh_chain"
    /\ s_pc = "idle"
    /\ s_raised = <<OutdatedToken>>
    /\ Requests(s_log) = ChainOrder
    /\ s_sess = s_pre

\* C15: a refresh with a pending rename makes the pending name the username, clears
\* the slot, sends no request and leaves every other attribute alone; a refresh runs
\* the chain only when no rename is pending, so the refresh after a rename-consuming
\* one runs the chain.
C15_RefreshConsumesRename ==
    /\ [](s_last = "refresh_rename"
            => /\ s_pre["_new_username"] # None
               /\ s_sess["username"] = s_pre["_new_username"]
               /\ s_sess["_new_username"] = None
               /\ SameBut(s_sess, s_pre, {"username", "_new_username"})
               /\ s_log = <<>>
               /\ s_pc = "idle")
    /\ [](s_last = "refresh_chain" => s_pre["_new_username"] = None)
    /\ [][(s_last = "refresh_rename" /\ ms_refresh)
            => (s_last' = "refresh_chain" /\ s_pc' = MS_OAUTH_TOKEN_URL)]_vars

\* a refresh has consumed a pending rename
C15_Witness ==
    /\ s_last = "refresh_rename"
    /\ s_pre["_new_username"] = "u5"
    /\ s_sess["username"] = "u5"

\* the profile request was answered with status 200 and a name
Answered200 ==
    s_in.kind = "json" /\ s_in.code = 200 /\ "name" \in DOMAIN s_in.body

ProfileAnswered ==
    /\ s_last = "refresh_chain"
    /\ Requests(s_log) = ChainOrder
    /\ s_in.kind = "json"

\* the message of the provider in an error document
ProviderMessage(body) ==
    IF "errorMessage" \in DOMAIN body THEN body["errorMessage"]
    ELSE IF "error" \in DOMAIN body THEN body["error"]
    ELSE "Unknown error"

\* the chain has returned a dict with the name and id of the profile
ProfileResult ==
    /\ s_raised = <<>>
    /\ s_res # <<>>
    /\ HasKeys(s_in.body, {"name", "id"})
    /\ s_res[1].username = s_in.body["name"]
    /\ s_res[1].uuid = s_in.body["id"]

NonOkStatusMapping ==
    /\ s_in.code = 404 => s_raised = <<DoesNotOwnMinecraft>>
    /\ s_in.code = 401 => s_raised = <<OutdatedToken>>
    /\ s_in.code \notin {200, 401, 404}
            => s_raised = <<AuthFailed(ProviderMessage(s_in.body))>>

\* C17 as stated: 404 gives DoesNotOwnProduct, 401 OutdatedToken, every other
\* non-200 status AuthFailed with the provider's message, and status 200 gives a
\* result whose username and uuid are the profile's name and id.
C17_ProfileStatusMapping ==
    ProfileAnswered
        => /\ NonOkStatusMapping
           /\ s_in.code = 200 => ProfileResult

\* C17 amended: as stated for the statuses other than 200; a 200 document with an
\* "error" member gives AuthFailed with the provider's message, a 200 document
\* without "error" gives the result when it has "name" and "id" and a KeyError
\* when it lacks one.
C17_ProfileStatusMappingErrorMember ==
    ProfileAnswered
        => /\ NonOkStatusMapping
           /\ s_in.code = 200
                => IF "error" \in DOMAIN s_in.body
                   THEN s_raised = <<AuthFailed(ProviderMessage(s_in.body))>>
                   ELSE IF HasKeys(s_in.body, {"name", "id"})
                   THEN ProfileResult
                   ELSE s_raised = <<KeyError>>

\* the profile request was answered 200 with a name, an id and an "error" member,
\* and the chain has failed with the provider's message
C17_Witness ==
    /\ ProfileAnswered
    /\ s_in.code = 200
    /\ DOMAIN s_in.body = {"name", "id", "error"}
    /\ s_raised = <<AuthFailed("e1")>>

\* a 200 document of the refresh endpoint with both members refresh reads
WholeRefreshBody == HasKeys(s_in.body, {"accessToken", "selectedProfile_name"})

\* C18: a yggdrasil validate returns true iff the endpoint answers 204, and changes
\* no attribute; a refresh answered 200 replaces access_token and username from the
\* response and leaves uuid and client_token alone; a refresh answered another
\* status raises an AuthError and leaves every attribute alone.
C18_ClassicSession ==
    /\ s_last = "ygg_validate"
        => /\ s_ret = RetBool(TRUE) <=> (s_in.kind # "fail" /\ s_in.code = 204)
           /\ s_sess = s_pre
    /\ (s_last = "ygg_refresh" /\ s_in.kind # "fail")
        => IF s_in.code = 200
           THEN WholeRefreshBody
                    => /\ s_raised = <<>>
                       /\ s_sess["access_token"] = s_in.body["accessToken"]
                       /\ s_sess["username"] = s_in.body["selectedProfile_name"]
                       /\ SameBut(s_sess, s_pre, {"access_token", "username"})
           ELSE /\ s_raised # <<>>
                /\ s_raised[1][1] = "AuthError"
                /\ s_sess = s_pre

-----------------------------------------------------------------------------
(* Claims about Util.json_request and DownloadList.append (SpecHttp) *)

\* the scheme of a url is neither http nor https
BadScheme(url) == urlparse(url).scheme \notin {"http", "https"}

\* C19: a json_request with a url whose scheme is neither http nor https has ended
\* with InvalidScheme, no connection object was made and no request was sent; an
\* append of an entry with such a url raises an error and leaves entries, count
\* and size as they were.
C19_InvalidSchemeRejected ==
    /\ []((h_pc \in {"request", "load", "finally", "done"} /\ BadScheme(h_url))
            => /\ h_pc = "done"
               /\ h_out = Raised(InvalidScheme(urlparse(h_url).scheme))
               /\ h_conn = "none"
               /\ h_requests = 0)
    /\ [][(dl_append /\ BadScheme(dl_in'[1].url))
            => (dl_raised' = <<ValueError>> /\ UNCHANGED <<dl_entries, dl_count, dl_size>>)]_vars

\* an ftp entry was refused by a list that holds an entry, and then a json_request
\* of an ftp url was refused
C19_Witness ==
    /\ dl_in = <<Entry(Url("ftp", "h1"), FALSE, 0)>>
    /\ dl_raised = <<ValueError>>
    /\ dl_count = 1
    /\ h_pc = "done"
    /\ h_url = Url("ftp", "h1")
    /\ h_out = Raised(InvalidScheme("ftp"))

\* C20: a json_request that made a connection has, when it ends, closed it; it
\* returns the status of the response as it is with the decoded document, for every
\* status; a body that is no JSON gives the status with an empty document when
\* ignore_error is set and NotJson otherwise; a failure of the socket, before the
\* response or while the body is read, gives SocketError.
C20_StatusReturnedAsIs ==
    (h_pc = "done" /\ ~BadScheme(h_url))
        => /\ h_conn = "closed"
           /\ h_resp.kind = "json" => h_out = Returned(h_resp.code, h_resp.body)
           /\ h_resp.kind = "notjson"
                => h_out = IF h_ignore THEN Returned(h_resp.code, EmptyDict)
                           ELSE Raised(NotJson)
           /\ h_resp.kind \in {"fail", "readfail"} => h_out = Raised(SocketError)
           /\ h_out = JsonRequestResult(h_resp, h_ignore)

\* a json_request answered 404 with a body that is no JSON has raised NotJson and
\* the connection is closed
C20_Witness ==
    /\ h_pc = "done"
    /\ h_resp = NotJsonBody(404)
    /\ ~h_ignore
    /\ h_out = Raised(NotJson)
    /\ h_conn = "closed"

\* the entries of the list with the host key each is filed under
Filed == {[key |-> k, entry |-> dl_entries[k][i]] : <<k, i>> \in PlacesOf(dl_entries)}

\* C26: every entry of the list is filed under the digit of its scheme (1 for
\* https, 0 for http) followed by its netloc, so that two entries are in one group
\* iff scheme and netloc agree, and an http and an https entry never share a group;
\* an append puts the entry at the end of its group and changes no other group.
C26_HostKeyGroups ==
    /\ [](/\ \A f \in Filed :
                LET scheme == Lower(f.entry.url.scheme)
                IN  /\ scheme \in {"http", "https"}
                    /\ f.key = <<IF scheme = "https" THEN 1 ELSE 0, f.entry.url.netloc>>
          /\ \A f1, f2 \in Filed :
                f1.key = f2.key <=>
                    (/\ Lower(f1.entry.url.scheme) = Lower(f2.entry.url.scheme)
                     /\ f1.entry.url.netloc = f2.entry.url.netloc)
          /\ \A k \in DOMAIN dl_entries : dl_entries[k] # <<>>)
    /\ [][dl_entries' # dl_entries =>
            \E k \in DOMAIN dl_entries' :
                /\ dl_entries'[k] =
                        Append(IF k \in DOMAIN dl_entries THEN dl_entries[k] ELSE <<>>, dl_in'[1])
                /\ DOMAIN dl_entries' = DOMAIN dl_entries \cup {k}
                /\ \A other \in DOMAIN dl_entries \ {k} : dl_entries'[other] = dl_entries[other]]_vars

\* an http and an https entry of the netloc h1 are in two groups
C26_Witness ==
    /\ dl_count = 2
    /\ DOMAIN dl_entries = {<<0, "h1">>, <<1, "h1">>}
    /\ dl_entries[<<0, "h1">>][1].url = Url("http", "h1")
    /\ dl_entries[<<1, "h1">>][1].url \in {Url("https", "h1"), Url("HTTPS", "h1")}

-----------------------------------------------------------------------------
(* Claims about the forge installer (SpecForge) *)

\* the suffixes to try for the versions of the model, as the claim orders them
ProbeOrder(forge_version) ==
    CASE forge_version[1] = "1.7.10" -> <<"", "-1.7.10", "-1710ls", "-new">>
      [] forge_version[1] = "1.9" -> <<"", "-1.9.0", "-1.9">>
      [] forge_version[1] = "1.11" -> <<"", "-1.11.x">>
      [] OTHER -> <<"">>

\* the probe is over
ProbeOver == f_pc \notin {"idle", "probe"}

\* C21: the probe requests the version with the empty suffix and then with the
\* suffixes of the table of its game version, in that order; every request before
\* the latest one was answered 404; an answer that is an error other than 404 ends
\* the probe with that error, a success ends it with the archive of that request,
\* and 404 for every suffix ends it with VersionNotFound; once the probe is over no
\* request is made.
C21_ProbeOrder ==
    /\ [](f_pc # "idle" =>
            LET order == ProbeOrder(f_forge_version)
                n == Len(f_requests)
            IN  /\ n <= Len(order)
                /\ \A i \in 1..n :
                    /\ f_requests[i].requested = [version |-> f_forge_version, suffix |-> order[i]]
                    /\ i < n => f_requests[i].status = 404
                /\ f_pc = "probe" => (n < Len(order) /\ f_jar = <<>> /\ f_raised = <<>>)
                /\ (n > 0 /\ f_requests[n].status = 200)
                        => (ProbeOver /\ f_jar = <<f_requests[n].requested>>)
                /\ (n > 0 /\ f_requests[n].status \notin {200, 404})
                        => (f_pc = "failed" /\ f_jar = <<>>
                            /\ f_raised[1].type = "HttpError"
                            /\ f_raised[1].code = f_requests[n].status)
                /\ (n > 0 /\ f_requests[n].status = 404 /\ n = Len(order))
                        => (f_pc = "failed" /\ f_jar = <<>> /\ f_raised = <<VersionNotFoundError>>)
                /\ f_raised = <<VersionNotFoundError>>
                        => (n = Len(order) /\ \A i \in 1..n : f_requests[i].status = 404))
    /\ [][ProbeOver => f_requests' = f_requests]_vars

\* the third suffix of 1.7.10 was served after two answers 404
C21_Witness ==
    /\ f_pc = "opened"
    /\ Len(f_requests) = 3
    /\ f_requests[1].status = 404
    /\ f_requests[2].status = 404
    /\ f_jar = <<[version |-> <<"1.7.10", "10.13.4.1614">>, suffix |-> "-1710ls"]>>

\* ForgeFinalizeTask.execute has reached the processors
Finalizing == f_info # <<>> /\ f_pc \in {"processor", "run", "done", "failed"} /\ f_k > 0

\* the events of kind PostProcessingStarted, in order
StartedEvents == SelectSeq(f_events, LAMBDA e : e.event = "ForgePostProcessingEvent")
CompletedEvents == SelectSeq(f_events, LAMBDA e : e.event = "ForgePostProcessedEvent")

\* processors start in declaration order, each after its event, the next one only
\* after the one before exited with 0
ProcessorsInOrder ==
    Finalizing =>
        /\ \A j \in 1..Len(StartedEvents) :
                StartedEvents[j].task = TaskOf(f_info[1].processors[j])
        /\ \A j \in 1..Len(f_runs) : f_runs[j].k = j
        /\ Len(f_runs) <= Len(StartedEvents)
        /\ Len(StartedEvents) <= Len(f_runs) + 1
        /\ \A j \in 1..(Len(f_runs) - 1) : f_runs[j].returncode = 0
        /\ f_pc = "run" <=> Len(StartedEvents) = Len(f_runs) + 1

\* a processor that exits with a code other than 0 fails the task with an error
\* that carries the task and the exit code
FailureCarriesTaskAndCode ==
    (Finalizing /\ f_runs # <<>> /\ f_runs[Len(f_runs)].returncode # 0) =>
        /\ f_pc = "failed"
        /\ f_raised # <<>>
        /\ f_raised[1].task = TaskOf(f_info[1].processors[Len(f_runs)])
        /\ f_raised[1].code = f_runs[Len(f_runs)].returncode

\* PostProcessingCompleted comes once, last, after every processor exited with 0
\* and the task did not fail
CompletedOnce ==
    Finalizing =>
        /\ Len(CompletedEvents) <= 1
        /\ Len(CompletedEvents) = 1 <=> f_pc = "done"
        /\ Len(CompletedEvents) = 1 =>
            /\ f_events[Len(f_events)] = ForgePostProcessedEvent
            /\ Len(f_runs) = Len(f_info[1].processors)
            /\ \A j \in 1..Len(f_runs) : f_runs[j].returncode = 0
            /\ f_raised = <<>>

\* C22: the post-processors run one at a time in declaration order, each after its
\* PostProcessingStarted event; an exit code other than 0 fails the task with
\* PostProcessorFailed carrying the task label and the exit code, no later
\* processor is started and PostProcessingCompleted is not emitted;
\* PostProcessingCompleted is emitted exactly once, after the last processor and
\* its checks succeeded.
C22_ProcessorsInOrder ==
    /\ [](ProcessorsInOrder /\ FailureCarriesTaskAndCode /\ CompletedOnce)
    /\ [][f_pc = "failed" => (f_events' = f_events /\ f_runs' = f_runs)]_vars

\* the texts of the profiles of the model with the variables substituted, as the
\* claim reads them
Substituted(txt) ==
    CASE txt = Var("OUT") -> "/tmp/x"
      [] txt = Var("OUT_SHA") -> "sha_a"
      [] txt = Var("OUT_LIB") -> "libraries/net/out/1/out-1.jar"
      [] OTHER -> txt.s

\* an entry of expected_sha1 that can be checked after a run: its variables are
\* known and its file is there
Checkable(entry, disk) ==
    /\ \A t \in {entry[1], entry[2]} : t.form = "var" => t.s \in {"OUT", "OUT_SHA", "OUT_LIB"}
    /\ Substituted(entry[1]) \in DOMAIN disk
    /\ disk[Substituted(entry[1])] # "absent"
Matches(entry, disk) == disk[Substituted(entry[1])] = Substituted(entry[2])

\* C23: after a processor exited with 0, the entries of its expected_sha1 are
\* checked in order with key and value substituted: the first entry whose file has
\* another SHA1 fails the task with an error naming the path, the actual and the
\* expected hash, and the task goes on past the processor when every entry matches; the
\* temporary directory is removed when the task ends without error and is present
\* when the task fails.
C23_OutputsChecked ==
    Finalizing =>
        /\ (f_runs # <<>> /\ f_runs[Len(f_runs)].returncode = 0) =>
            LET run == f_runs[Len(f_runs)]
                entries == f_info[1].processors[run.k].sha1
                allChecked == \A j \in 1..Len(entries) : Checkable(entries[j], run.disk)
                fails == {j \in 1..Len(entries) :
                            /\ \A i \in 1..j : Checkable(entries[i], run.disk)
                            /\ \A i \in 1..(j - 1) : Matches(entries[i], run.disk)
                            /\ ~Matches(entries[j], run.disk)}
            IN  /\ \A j \in fails :
                    /\ f_pc = "failed"
                    /\ f_raised = <<Sha1Error(Substituted(entries[j][1]),
                                              run.disk[Substituted(entries[j][1])],
                                              Substituted(entries[j][2]))>>
                /\ (allChecked /\ fails = {}) => f_k > run.k
                /\ (f_raised # <<>> /\ f_raised[1].text = "invalid sha1") => fails # {}
        /\ f_pc = "done" => (f_tmp = "removed" /\ f_raised = <<>>)
        /\ f_pc # "done" => f_tmp = "present"
        /\ f_pc = "failed" <=> f_raised # <<>>

\* the second output of the binary patcher, a path given by a variable, has another
\* hash than the quoted one of the variable; the temporary directory is still there
C23_Witness ==
    /\ f_pc = "failed"
    /\ f_tmp = "present"
    /\ f_raised = <<Sha1Error("libraries/net/out/1/out-1.jar", "sha_b", "sha_a")>>
    /\ Len(f_runs) = 2

\* fetch_version has read an install profile and execute has not begun
FetchOver == f_profile # <<>> /\ f_pc \in {"fetched", "failed"} /\ f_k = 0
ModernProfile == FetchOver /\ f_profile[1].present /\ f_profile[1].json

\* the sides of a processor are empty or absent, or hold "client"
ForClient(processor) ==
    processor.sides = <<>> \/ \E j \in 1..Len(processor.sides) : processor.sides[j] = "client"
NoPostInfo == f_info = <<>> /\ \A j \in 1..Len(f_steps) : f_steps[j] # "insert"
NoMetadataFile == f_written = <<>> /\ \A j \in 1..Len(f_steps) : f_steps[j] # "write"
ParseAborted ==
    /\ f_pc = "failed"
    /\ Len(f_raised) = 1
    /\ f_raised[1].type = "ValueError"
    /\ NoPostInfo
    /\ NoMetadataFile

\* C33 as stated: parsing keeps exactly the processors whose sides are empty, absent
\* or hold "client", in the order of the profile; any processor whose sides is not
\* a list or whose jar is not a string aborts parsing with an error, and then no
\* PostInfo is inserted and no metadata file is written.
C33_ProcessorsParsed ==
    ModernProfile =>
        LET processors == f_profile[1].processors
            malformed == {j \in 1..Len(processors) :
                            processors[j].sides_type # "list" \/ processors[j].jar_type # "str"}
        IN  IF malformed # {} THEN ParseAborted
            ELSE /\ f_pc = "fetched"
                 /\ f_info # <<>>
                 /\ f_info[1].processors = SelectSeq(processors, ForClient)

\* C33 as amended: parsing keeps exactly the processors whose sides are empty, absent
\* or hold "client", in the order of the profile; a processor whose sides is not a
\* list, or a processor for the client whose jar is not a string, aborts parsing
\* with an error that names its index, and then no PostInfo is inserted and no
\* metadata file is written; the jar of a processor skipped for its sides is not
\* looked at.
C33_ClientProcessorsParsed ==
    ModernProfile =>
        LET processors == f_profile[1].processors
            malformed == {j \in 1..Len(processors) :
                            \/ processors[j].sides_type # "list"
                            \/ ForClient(processors[j]) /\ processors[j].jar_type # "str"}
        IN  IF malformed # {}
            THEN /\ ParseAborted
                 /\ \A j \in malformed : f_raised[1].code + 1 <= j
                 /\ f_raised[1].code + 1 \in malformed
            ELSE /\ f_pc = "fetched"
                 /\ f_raised = <<>>
                 /\ f_info # <<>>
                 /\ f_info[1].processors = SelectSeq(processors, ForClient)

\* the second processor of a profile has no jar: the first one was kept, and the
\* parsing was given up
C33_Witness ==
    /\ ModernProfile
    /\ Len(f_profile[1].processors) = 2
    /\ ForClient(f_profile[1].processors[1])
    /\ f_raised = <<JarError(1)>>
    /\ NoPostInfo
    /\ NoMetadataFile

\* fetch_version has read the archive, and whatever came after it
ProfileRead == f_profile # <<>>
LegacyProfile == ProfileRead /\ f_profile[1].present /\ ~f_profile[1].json
StepsOf(step) == {j \in 1..Len(f_steps) : f_steps[j] = step}
FetchFailedWith(exc) == f_pc = "failed" /\ f_raised = <<exc>> /\ NoPostInfo /\ NoMetadataFile

\* C34: a profile with "json" inserts exactly one PostInfo; a profile without it
\* inserts none, so that execute later does nothing and emits no event, fails with
\* VERSION_METADATA_NOT_FOUND when versionInfo is absent and else removes serverreq,
\* clientreq and checksums from every library; an archive without
\* install_profile.json fails with INSTALL_PROFILE_NOT_FOUND; on both branches that
\* succeed the id of the stored metadata is the id of the version, and the metadata
\* file is written once, after the archive was closed.
C34_SchemaBranches ==
    /\ (FetchOver /\ ~f_profile[1].present) =>
            FetchFailedWith([type |-> "ForgeInstallError", text |-> "install_profile_not_found",
                             task |-> "", code |-> 0, path |-> "", got |-> "", expected |-> ""])
    /\ (ModernProfile /\ f_pc = "fetched") => (f_info # <<>> /\ Cardinality(StepsOf("insert")) = 1)
    /\ LegacyProfile =>
        /\ NoPostInfo
        /\ f_events = <<>> /\ f_runs = <<>> /\ f_tmp = "none"
        /\ f_pc \in {"fetched", "failed", "done"}
        /\ f_profile[1].versionInfo = <<>> =>
                FetchFailedWith([type |-> "ForgeInstallError", text |-> "version_meta_not_found",
                                 task |-> "", code |-> 0, path |-> "", got |-> "", expected |-> ""])
        /\ f_profile[1].versionInfo # <<>> =>
            LET before == f_profile[1].versionInfo[1].libraries
                after == f_meta[1].libraries
            IN  /\ f_pc # "failed"
                /\ Len(after) = Len(before)
                /\ \A j \in 1..Len(before) :
                    /\ after[j] \cap {"serverreq", "clientreq", "checksums"} = {}
                    /\ {key \in before[j] : key \notin {"serverreq", "clientreq", "checksums"}} = after[j]
    /\ (FetchOver /\ f_pc = "fetched") =>
        /\ f_meta[1].id = <<"forge">> \o f_forge_version
        /\ f_written = f_meta
        /\ Cardinality(StepsOf("write")) = 1
        /\ \E j \in StepsOf("close") : StepsOf("write") = {j + 1} /\ Len(f_steps) = j + 1

\* a profile without "json" whose libraries had the three keys was fetched, and
\* execute has returned
C34_Witness ==
    /\ LegacyProfile
    /\ f_pc = "done"
    /\ f_profile[1].versionInfo # <<>>
    /\ Len(f_profile[1].versionInfo[1].libraries) = 2
    /\ f_profile[1].versionInfo[1].libraries[1] = {"name", "clientreq", "checksums", "serverreq"}
    /\ f_written = <<[id |-> <<"forge">> \o f_forge_version, libraries |-> << {"name"}, {"name"} >>]>>
    /\ f_events = <<>>

-----------------------------------------------------------------------------
(* Claims about the download of a DownloadList (SpecDownload) *)

\* the scheme and netloc of the url of an entry in flight
SchemeAndNetloc(e) == urlparse(dl_entries[e[1]][e[2]].url)

\* C24: during a download phase at most one connection is open to a host key and
\* no two entries in flight have the same scheme and netloc.
C24_OnePerHostKey ==
    x_pc \in {"running", "callbacks", "done", "failed"} =>
        /\ \A k \in DOMAIN x_conns : x_conns[k] <= 1
        /\ \A e1, e2 \in x_inflight :
                SchemeAndNetloc(e1) = SchemeAndNetloc(e2) => e1 = e2
        /\ \A e \in x_inflight : x_conns[e[1]] = 1

\* an https and an http entry of h1 are in flight at the same time
C24_Witness ==
    /\ x_pc = "running"
    /\ Cardinality(x_inflight) = 2
    /\ \E e1, e2 \in x_inflight :
        /\ SchemeAndNetloc(e1) = [scheme |-> "https", netloc |-> "h1"]
        /\ SchemeAndNetloc(e2) = [scheme |-> "http", netloc |-> "h1"]

\* seq is the beginning of full
IsPrefixOf(seq, full) ==
    /\ Len(seq) <= Len(full)
    /\ \A i \in 1..Len(seq) : seq[i] = full[i]

\* C25: a callback has run only when every entry of every host key is downloaded
\* and verified; the callbacks that have run are the first ones registered with
\* add_callback, in that order; after an entry failed for good no callback has
\* run; a callback that raised is the last one that ran; once the phase has failed
\* no callback runs.
C25_CallbacksAfterDownloads ==
    /\ [](x_pc \in {"running", "callbacks", "done", "failed"} =>
            /\ x_ran # <<>> =>
                    {x_done[i] : i \in DOMAIN x_done} = PlacesOf(dl_entries)
            /\ IsPrefixOf(x_ran, dl_registered)
            /\ (x_raised # <<>> /\ x_raised[1].type = "DownloadError") => x_ran = <<>>
            /\ \A i \in 1..Len(x_ran) :
                    x_ran[i].raises => (i = Len(x_ran) /\ x_pc = "failed")
            /\ x_pc = "done" => x_ran = dl_registered)
    /\ [][x_pc = "failed" => x_ran' = x_ran]_vars

\* c2 and then c1 were registered and ran in that order after two downloads
C25_Witness ==
    /\ x_pc = "done"
    /\ Len(x_done) = 2
    /\ dl_registered = <<Callback("c2", FALSE), Callback("c1", FALSE)>>
    /\ x_ran = dl_registered

-----------------------------------------------------------------------------
(* Claims about the planners of a Version (SpecInstall) *)

\* install_assets has just returned
AssetsPlanned == i_last = "install_assets" /\ i_raised = <<>> /\ i_meta # <<>>

\* the object file of an asset was missing or had another size than the index says
\* when the latest operation began
ObjectWanted(asset_obj) ==
    LET file == <<"assets", "objects", asset_obj.hash[1], asset_obj.hash[1] \o asset_obj.hash[2]>>
    IN  i_pre[file] = "absent" \/ SizeOf(i_pre[file]) # asset_obj.size

\* the entry the planner makes for an asset
AssetEntry(asset_obj) ==
    [url |-> [scheme |-> "https", netloc |-> "resources.download.minecraft.net",
              path |-> <<asset_obj.hash[1], asset_obj.hash[1] \o asset_obj.hash[2]>>],
     dst |-> << <<"assets", "objects", asset_obj.hash[1], asset_obj.hash[1] \o asset_obj.hash[2]>> >>,
     sized |-> TRUE, size |-> asset_obj.size,
     sha1 |-> asset_obj.hash[1] \o asset_obj.hash[2], name |-> asset_obj.id]

\* the entries handed to append are those of the wanted assets, in index order
PlansWantedAssets ==
    LET wanted == SelectSeq(i_net_index.objects, ObjectWanted)
    IN  i_new = [j \in 1..Len(wanted) |-> AssetEntry(wanted[j])]

\* the hashes of the wanted assets
WantedObjects == {i_net_index.objects[j].hash : j \in {n \in 1..Len(i_net_index.objects) :
                                                         ObjectWanted(i_net_index.objects[n])}}

\* C27 as stated: the planner enqueues an entry for an asset iff its object file is
\* missing or of another size, with the size and hash of the index, and so plans
\* one entry per distinct missing object, and none when run again after the
\* downloads.
C27_AssetPlanner ==
    AssetsPlanned =>
        /\ PlansWantedAssets
        /\ Len(i_new) = Cardinality(WantedObjects)

\* C27 as amended: the planner enqueues one entry per asset of the index whose
\* object file is missing or of another size, in index order, with the size and
\* hash of the index: two assets of one object give two entries; it plans none
\* when every object file is there with the size of the index.
C27_AssetPlannerPerAsset ==
    AssetsPlanned =>
        /\ PlansWantedAssets
        /\ WantedObjects = {} => i_new = <<>>
        /\ i_dl.count >= Len(i_new)

\* a second run of the planner, after the two objects it planned the first time
\* were downloaded, plans nothing
C27_Witness ==
    /\ AssetsPlanned
    /\ i_calls = 2
    /\ Len(i_net_index.objects) = 2
    /\ i_disk[<<"assets", "objects", "ab", "ab2">>] = "ab2"
    /\ i_disk[<<"assets", "objects", "ab", "ab1">>] = "ab1"
    /\ i_new = <<>>

\* C28: after the finalize callback of install_assets has run, for every asset of
\* the index the file under resources (map_to_resources) and under the virtual
\* directory (virtual) exists; one that was not there before has the bytes of the
\* object file of that asset, one that was there is as it was; with both flags
\* false no file changes.
C28_FinalizeCopies ==
    (i_last = "finalize" /\ i_raised = <<>>) =>
        LET index == i_net_index
            Copied(dst, asset_obj) ==
                /\ i_disk[dst] # "absent"
                /\ IF i_pre[dst] # "absent" THEN i_disk[dst] = i_pre[dst]
                   ELSE i_disk[dst] = i_disk[<<"assets", "objects", asset_obj.hash[1],
                                               asset_obj.hash[1] \o asset_obj.hash[2]>>]
        IN  /\ \A j \in 1..Len(index.objects) :
                /\ index.map_to_resources =>
                        Copied(<<"work", "resources", index.objects[j].id>>, index.objects[j])
                /\ index.virtual =>
                        Copied(<<"assets", "virtual", "idx", index.objects[j].id>>, index.objects[j])
            /\ (~index.map_to_resources /\ ~index.virtual) => i_disk = i_pre

\* C29: with logging.client in the metadata install_logger ends without error,
\* hands the config file to append iff the local file is missing or of another
\* size, and returns the argument with ${path} replaced by the path of the file
\* under assets/log_configs; without logging or logging.client it appends nothing
\* and returns None.
C29_InstallLogger ==
    (i_last = "install_logger" /\ i_meta # <<>>) =>
        LET file == <<"assets", "log_configs", "client-1.12.xml">>
            wanted == i_pre[file] = "absent" \/ SizeOf(i_pre[file]) # 4
        IN  /\ i_raised = <<>>
            /\ i_meta[1].logging = "client" =>
                /\ Len(i_new) = (IF wanted THEN 1 ELSE 0)
                /\ wanted => (i_new[1].dst = <<file>> /\ i_new[1].size = 4 /\ i_new[1].sha1 = "cfg")
                /\ i_ret = << <<"-Dlog4j.configurationFile=", file>> >>
            /\ i_meta[1].logging # "client" => (i_new = <<>> /\ i_ret = <<>>)

\* C30: install_jar after install_meta ends without an internal error, leaves
\* version_jar_file at the jar path under the version directory, hands one entry
\* for that path to append iff the jar file does not exist, and fails with
\* JarNotFound, appending nothing, iff the jar is missing and the metadata has no
\* downloads.client.
C30_InstallJar ==
    (i_last = "install_jar" /\ i_meta # <<>>) =>
        LET jar == <<"versions", "v", "v.jar">>
            missing == i_pre[jar] = "absent"
        IN  /\ i_raised \in {<<>>, <<JarNotFound>>}
            /\ i_raised = <<JarNotFound>> <=> (missing /\ ~i_meta[1].client)
            /\ i_raised = <<JarNotFound>> => i_new = <<>>
            /\ i_raised = <<>> =>
                /\ i_jar_file = <<jar>>
                /\ Len(i_new) = (IF missing THEN 1 ELSE 0)
                /\ missing => i_new[1].dst = <<jar>>

-----------------------------------------------------------------------------
(* Claims about the edits of a task sequence (SpecSeq) *)

\* a task of the sequence was in it before the latest edit
WasThere(task) == \E k \in 1..Len(q_pre) : q_pre[k] = task
\* the other tasks are in the order they had
OthersKeepOrder == SelectSeq(q_tasks, WasThere) = q_pre
\* the indexes of the tasks of type T before the latest edit
PreIndexes(T) == {k \in 1..Len(q_pre) : q_pre[k].type = T}

\* C31: prepend_task(t, before=T) puts t immediately before the first task of type
\* T, append_task(t, after=T) immediately after the last task of type T, and the
\* other tasks keep their order; after add_forge_tasks on a vanilla sequence a new
\* ForgeInitTask is immediately before the first MetadataTask, and the last JarTask
\* is immediately followed by a new DownloadTask and then a new ForgeFinalizeTask.
C31_SequenceEdits ==
    /\ q_op.name = "prepend_task" =>
        /\ OthersKeepOrder
        /\ \E i \in 1..(Len(q_tasks) - 1) :
            /\ q_tasks[i] = q_op.t
            /\ q_tasks[i + 1].type = q_op.T
            /\ \A k \in 1..(i - 1) : q_tasks[k].type # q_op.T
    /\ q_op.name = "append_task" =>
        /\ OthersKeepOrder
        /\ \E i \in 2..Len(q_tasks) :
            /\ q_tasks[i] = q_op.t
            /\ q_tasks[i - 1].type = q_op.T
            /\ \A k \in (i + 1)..Len(q_tasks) : q_tasks[k].type # q_op.T
    /\ q_op.name = "add_forge_tasks" =>
        /\ OthersKeepOrder
        /\ Len(q_tasks) = Len(q_pre) + 3
        /\ \E i \in 1..(Len(q_tasks) - 1) :
            /\ q_tasks[i].type = "ForgeInitTask" /\ ~WasThere(q_tasks[i])
            /\ q_tasks[i + 1] = q_pre[CHOOSE k \in PreIndexes("MetadataTask") :
                                        \A n \in PreIndexes("MetadataTask") : k <= n]
        /\ \E i \in 1..(Len(q_tasks) - 2) :
            /\ q_tasks[i] = q_pre[CHOOSE k \in PreIndexes("JarTask") :
                                    \A n \in PreIndexes("JarTask") : k >= n]
            /\ q_tasks[i + 1].type = "DownloadTask" /\ ~WasThere(q_tasks[i + 1])
            /\ q_tasks[i + 2].type = "ForgeFinalizeTask" /\ ~WasThere(q_tasks[i + 2])

\* add_forge_tasks has run on a sequence that two edits gave a second JarTask and a
\* second MetadataTask
C31_Witness ==
    /\ q_op.name = "add_forge_tasks"
    /\ Cardinality(PreIndexes("JarTask")) = 2
    /\ Cardinality(PreIndexes("MetadataTask")) = 2
    /\ Len(q_tasks) = 9

-----------------------------------------------------------------------------
(* Claims about RicherAddon.run_game (SpecGame) *)

\* _run is past the kill and the wait
PastKill == g_pc \in {"app_check", "returned"}

-----------------------------------------------------------------------------
(* Claims about the queries of a VersionManifest (SpecSearch) *)

\* the query is an alias of "latest", and the id it stands for
QueryIsAlias == v_inp \in DOMAIN v_data.latest
QueryTarget == IF QueryIsAlias THEN v_data.latest[v_inp] ELSE v_inp
\* the text occurs in the id
Occurs(text, id) ==
    \E before \in 0..Len(id) :
        before + Len(text) <= Len(id) /\ SubSeq(id, before + 1, before + Len(text)) = text
\* the places of the manifest a query is to give
ExactPlaces == {j \in 1..Len(v_data.versions) : v_data.versions[j].id = QueryTarget}
SearchPlaces ==
    IF QueryIsAlias THEN ExactPlaces
    ELSE {j \in 1..Len(v_data.versions) : Occurs(v_inp, v_data.versions[j].id)}
\* the n-th place of a set of places, in manifest order
PlaceOf(places, n) == CHOOSE j \in places : Cardinality({k \in places : k < j}) = n - 1

\* C36: search_versions(inp) yields, in manifest order, exactly the versions whose id
\* is the target when inp is an alias of "latest", and exactly the versions whose id
\* contains inp when it is not; get_version(inp) returns the first version whose id
\* is the target of the alias, or inp itself when it is no alias, and nothing when
\* there is none.
C36_ManifestQueries ==
    /\ v_op = "search_versions" =>
        /\ Len(v_out) = Cardinality(SearchPlaces)
        /\ \A n \in 1..Len(v_out) : v_out[n] = v_data.versions[PlaceOf(SearchPlaces, n)]
    /\ v_op = "get_version" =>
        IF ExactPlaces = {} THEN v_out = <<>>
        ELSE v_out = <<v_data.versions[PlaceOf(ExactPlaces, 1)]>>

\* a search by an alias gave the two versions of the target id and left out the
\* version whose id only contains it
C36_Witness ==
    /\ v_op = "search_versions"
    /\ v_inp = <<"r">>
    /\ v_data.latest[<<"r">>] = <<"1">>
    /\ Len(v_data.versions) = 3
    /\ v_data.versions[2].id = <<"1", "2">>
    /\ v_out = <<v_data.versions[1], v_data.versions[3]>>

-----------------------------------------------------------------------------
(* Claims about the DownloadList of a Version while it is planned (SpecPlan) *)

\* the entries of the list, each by its host key and its place
ListPlaces == UNION {{<<k, j>> : j \in 1..Len(i_dl.entries[k])} : k \in DOMAIN i_dl.entries}
\* the sum of the sizes of the entries of some places that have a size
RECURSIVE SumOfSizes(_)
SumOfSizes(places) ==
    IF places = {} THEN 0
    ELSE LET place == CHOOSE x \in places : TRUE
             entry == i_dl.entries[place[1]][place[2]]
         IN  (IF entry.sized THEN entry.size ELSE 0) + SumOfSizes(places \ {place})

ListCounts ==
    /\ i_dl.count = Cardinality(ListPlaces)
    /\ i_dl.size = SumOfSizes(ListPlaces)
    /\ \A k \in DOMAIN i_dl.entries : i_dl.entries[k] # <<>>

\* a step keeps every entry under its host key and every callback at its place
AppendOnly ==
    /\ \A k \in DOMAIN i_dl.entries :
        /\ k \in DOMAIN i_dl'.entries
        /\ IsPrefixOf(i_dl.entries[k], i_dl'.entries[k])
    /\ IsPrefixOf(i_dl.callbacks, i_dl'.callbacks)

\* install_jar and install_assets before install_meta: an error, and the same list
PlannerBeforeMeta ==
    (i_meta = <<>> /\ i_last' \in {"install_jar", "install_assets"} /\ i_calls' # i_calls) =>
        (i_raised' # <<>> /\ i_dl' = i_dl)

\* C37: while a list is planned, count is the number of entries over all host keys,
\* size is the sum of the sizes of the entries that have one, no host key has an
\* empty list, and no step removes or moves an entry or a callback of the list;
\* install_jar and install_assets called before install_meta fail with an error and
\* leave the list as it is.
C37_ListAppendOnly == [](ListCounts) /\ [][AppendOnly /\ PlannerBeforeMeta]_vars

\* two entries under one host key, one of them without a size, before install_meta
C37_Witness ==
    /\ i_dl.count = 2
    /\ i_dl.size = 2
    /\ \E k \in DOMAIN i_dl.entries : Len(i_dl.entries[k]) = 2 /\ ~i_dl.entries[k][2].sized
    /\ i_meta = <<>>

-----------------------------------------------------------------------------
(* Claims about ThreadedProcessReader (SpecReader) *)

\* the lines of the reads that the queue took, in order
KeptLines(read) ==
    LET kept == SelectSeq(read, LAMBDA r : r.kept)
    IN  [j \in 1..Len(kept) |-> kept[j].line]

\* what poll() handed out and what the queue holds are the lines taken, in the order read
HandedInOrder == r_got \o r_queue = KeptLines(r_read)

\* a line read while the queue is full is dropped and the thread goes on
DropsWhenFull ==
    (reader_entry /\ r_pipe # <<>> /\ Len(r_queue) = QueueSize)
        => (r_queue' = r_queue /\ r_pipe' = Tail(r_pipe) /\ r_thread' = "running")

\* poll() gives the oldest line of the queue, or nothing when the queue is empty
PollReturns ==
    reader_poll =>
        IF r_queue = <<>> THEN r_ret' = NoLine /\ r_queue' = <<>>
        ELSE r_ret' = Head(r_queue) /\ r_queue' = Tail(r_queue)

\* the round of _entry that finds the stream at end of file
ReadsAtEof == reader_entry /\ r_pipe = <<>> /\ ~r_open

\* at end of file the thread stops, closes the stream and leaves the queue as it is
StopsAtEof == ReadsAtEof => (r_thread' = "done" /\ r_closed' /\ r_queue' = r_queue)

\* C38: the lines read from the child's stream reach poll() in the order they were read;
\* a line that arrives while the queue is full is dropped and the reader goes on; poll()
\* returns nothing on an empty queue and the oldest line otherwise; and the round of the
\* reader thread that finds the stream at end of file stops the thread, closes the stream
\* and enqueues nothing.
C38_ReaderHandsLines ==
    /\ [](HandedInOrder /\ Len(r_queue) <= QueueSize)
    /\ [][DropsWhenFull /\ PollReturns /\ StopsAtEof]_vars

=============================================================================
